---- MODULE Spec2Model ----
(***************************************************************************)
(* Annotation data engine and realtime synchronisation layer of the        *)
(* inkwell annotator: the annotation store (annotationStore.ts), its       *)
(* undo/redo history, the realtime client (realtimeClient.ts), the hook    *)
(* that wires the client to the stores (useRealtimeSync.ts) and the        *)
(* collaboration store (collaborationStore.ts).                            *)
(*                                                                         *)
(* Conventions: the JavaScript value undefined/null of a string field is   *)
(* the empty string "" (both are falsy in the code's tests); an optional   *)
(* number is a sequence, <<>> for undefined and <<n>> for the number n.    *)
(* Annotation fields color, createdAt, updatedAt and ocrLabel are carried  *)
(* along by every operation without being read and are left out.           *)
(***************************************************************************)
EXTENDS FiniteSets, Integers, Sequences, TLC

VARIABLES
    annotations,          \* store.annotations (active set, an array)
    pendingAnnotations,   \* store.pendingAnnotations (deferred set, an array)
    selectedIds,          \* store.selectedIds
    history,              \* store.history (array of snapshots of annotations)
    historyIndex,         \* store.historyIndex
    mode,                 \* store.mode
    uuidCount,            \* number of ids crypto.randomUUID() has handed out
    saveTimers,           \* pending setTimeout(() => get().saveToLocalStorage(), 100)
                          \* callbacks; MaxTimers stands for that many or more
    localStorageItem,     \* by image key: annotations and transform of the item
                          \* imageAnnotator_<key> saveToLocalStorage wrote last
    imageUrl,             \* store.imageUrl
    localUserId,          \* user id decoded from the token ("" when it decodes to null)
    socket,               \* RealtimeClient.socket: "null", or the readyState of the socket
    staleSockets,         \* sockets the client created and holds no longer, by readyState;
                          \* their listeners still act on the client
    isOpen,               \* RealtimeClient.isOpen
    heartbeatTimer,       \* RealtimeClient.heartbeatTimer is set
    viewportQueue,        \* RealtimeClient.viewportQueue
    trackedViewports,     \* RealtimeClient.trackedViewports
    outbox,               \* messages the last operation handed to socket.send
    remoteUsers,          \* collaboration store remoteUsers
    collabLocalUserId,    \* collaboration store localUserId
    colorCursor,          \* collaborationStore.ts module variable colorCursor
    currentImageId,       \* viewer store (useAnnotationStore.ts): "" for null
    viewerAnnotations,    \* viewer store: annotations, image id -> sequence
    viewerSelectedIds,    \* viewer store: selectedIds
    viewerHistory,        \* viewer store: history, a sequence of snapshots
    viewerHistoryIndex,   \* viewer store: historyIndex
    viewerIdCount,        \* ids generateId has handed out
    lastOp,               \* the operation that produced this state
    remoteApplied,        \* annotations the last remote operation stored, while only
                          \* undo and redo have run since
    scenario,             \* progress of the update/undo scenario
    image,                \* store.image: width and height of the loaded image
    transform,            \* store.transform: scale, translateX, translateY
    scrollLeft,           \* scrollContainerRef.current.scrollLeft
    scrollTop,            \* scrollContainerRef.current.scrollTop
    viewOps,              \* zoom and pan gestures made so far
    marqueeStart,         \* component state marqueeStart: <<>> for null, or <<point>>
    mousePos,             \* store.mousePos: x and y, relative to the visible canvas
    activeProfileEditId,  \* component state activeProfileEditId: "" for null
    csvInput,             \* arguments of convertBoundingBoxRowsToAnnotations
    csvAnnotations        \* the array its last call returned

storeVars == <<annotations, pendingAnnotations, selectedIds, history, historyIndex, mode, uuidCount,
               saveTimers>>
clientVars == <<localUserId, socket, staleSockets, isOpen, heartbeatTimer, viewportQueue,
                trackedViewports, outbox>>
collabVars == <<remoteUsers, collabLocalUserId, colorCursor>>
csvVars == <<csvInput, csvAnnotations>>
persistVars == <<localStorageItem, imageUrl>>
canvasVars == <<image, transform, scrollLeft, scrollTop, viewOps, marqueeStart, mousePos,
                activeProfileEditId>>
viewerVars == <<currentImageId, viewerAnnotations, viewerSelectedIds, viewerHistory,
                viewerHistoryIndex, viewerIdCount>>
vars == <<annotations, pendingAnnotations, selectedIds, history, historyIndex, mode, uuidCount,
          saveTimers, localStorageItem, imageUrl, image, transform, scrollLeft, scrollTop, viewOps,
          marqueeStart, mousePos, activeProfileEditId,
          localUserId, socket, staleSockets, isOpen, heartbeatTimer, viewportQueue, trackedViewports, outbox,
          remoteUsers, collabLocalUserId, colorCursor,
          currentImageId, viewerAnnotations, viewerSelectedIds, viewerHistory,
          viewerHistoryIndex, viewerIdCount, lastOp, remoteApplied, scenario,
          csvInput, csvAnnotations>>

(***************************************************************************)
(* Bounds of the model.                                                    *)
(***************************************************************************)
MaxAnnotations == 3
MaxHistory == 2
MaxUuids == 2
MaxUpdates == 52
MaxViewerIds == 2
MaxSyncEdits == 1
MaxSockets == 2

(***************************************************************************)
(* Program constants.                                                      *)
(***************************************************************************)
HistoryCap == 50
maxHistorySize == 50

PROFILE_LABEL_CONFIG ==
    {"Column Schedule", "Column Section", "Wall Schedule", "Beam Schedule", "Slab Schedule",
     "Foundation Schedule", "Detail Section", "Elevation", "Plan View"}

LABEL_CONFIG ==
    {"T1", "T2", "S15", "VerticalBars", "HorizontalBars", "T3", "T4", "S20", "S25"}

OCR_LABEL_CONFIG ==
    {"Sheetno", "Detailno", "Scale", "Title", "Date", "Revision", "Project", "Drawing", "Note"}

\* The strings UUID_REGEX accepts: the ids the server uses and the ids
\* crypto.randomUUID() returns.
ServerUuids == {"s1", "s2", "s3"}
UuidPool == <<"g1", "g2", "g3", "g4">>
UUID_REGEX == ServerUuids \cup {UuidPool[i] : i \in DOMAIN UuidPool}

(***************************************************************************)
(* Helpers on arrays.                                                      *)
(***************************************************************************)
Range(s) == {s[i] : i \in DOMAIN s}

Ids(s) == {s[i].id : i \in DOMAIN s}

Annotation(id, label, category, x, y, w, h, parentId) ==
    [id |-> id, label |-> label, category |-> category,
     x |-> x, y |-> y, w |-> w, h |-> h, parentId |-> parentId]

\* { ...ann, ...updates }
Spread(ann, updates) ==
    [f \in DOMAIN ann |-> IF f \in DOMAIN updates THEN updates[f] ELSE ann[f]]

\* JSON.parse(JSON.stringify(annotations)): a structural copy; every stored
\* number is finite and an undefined field stays absent.
JsonClone(anns) ==
    [i \in DOMAIN anns |-> [f \in DOMAIN anns[i] |-> anns[i][f]]]

isProfileAnnotation(ann) ==
    /\ ann.label # ""
    /\ ann.label \in PROFILE_LABEL_CONFIG

isAnnotationInsideProfile(ann, profile) ==
    /\ ann.x >= profile.x
    /\ ann.y >= profile.y
    /\ ann.x + ann.w <= profile.x + profile.w
    /\ ann.y + ann.h <= profile.y + profile.h

inferCategoryFromLabel(label) ==
    IF label = "" THEN ""
    ELSE IF label \in PROFILE_LABEL_CONFIG THEN "profile"
    ELSE IF label \in LABEL_CONFIG THEN "model"
    ELSE IF label \in OCR_LABEL_CONFIG THEN "ocr"
    ELSE ""

\* crypto.randomUUID(): an id no earlier call returned; count is the number
\* of ids handed out so far
generateUuid(count) == UuidPool[count + 1]

\* ensureUuid as a pair: the id, and whether a new one was generated
ensureUuid(value, count) ==
    IF value # "" /\ value \in UUID_REGEX
    THEN [id |-> value, fresh |-> FALSE]
    ELSE [id |-> generateUuid(count), fresh |-> TRUE]

(***************************************************************************)
(* History: saveHistory, undo and redo as functions of the store fields.   *)
(***************************************************************************)
\* a push that never drops the oldest entry
saveHistoryUncapped(h, idx, anns) ==
    LET newHistory == Append(SubSeq(h, 1, idx + 1), JsonClone(anns))
    IN [history |-> newHistory, historyIndex |-> Len(newHistory) - 1]

saveHistory(h, idx, anns) ==
    LET newHistory == Append(SubSeq(h, 1, idx + 1), JsonClone(anns))
        capped == IF Len(newHistory) > HistoryCap THEN Tail(newHistory) ELSE newHistory
    IN [history |-> capped, historyIndex |-> Len(capped) - 1]

\* zero-based history[i] of the code is h[i + 1]
undo(h, idx, anns) ==
    IF idx <= 0 THEN [annotations |-> anns, historyIndex |-> idx]
    ELSE [annotations |-> JsonClone(h[idx]), historyIndex |-> idx - 1]

\* a redo that never moves the pointer
redoStays(h, idx, anns) == [annotations |-> anns, historyIndex |-> idx]

redo(h, idx, anns) ==
    IF idx >= Len(h) - 1 THEN [annotations |-> anns, historyIndex |-> idx]
    ELSE [annotations |-> JsonClone(h[idx + 2]), historyIndex |-> idx + 1]

\* a snapshot appended behind the whole history, the pointer moving by one
SetAndAppendHistory(newAnnotations, newPending, newSelected) ==
    /\ annotations' = newAnnotations
    /\ pendingAnnotations' = newPending
    /\ selectedIds' = newSelected
    /\ history' = Append(history, JsonClone(newAnnotations))
    /\ historyIndex' = historyIndex + 1

\* set(...) followed by get().saveHistory()
SetAndSaveHistory(newAnnotations, newPending, newSelected) ==
    LET saved == saveHistory(history, historyIndex, newAnnotations)
    IN /\ annotations' = newAnnotations
       /\ pendingAnnotations' = newPending
       /\ selectedIds' = newSelected
       /\ history' = saved.history
       /\ historyIndex' = saved.historyIndex

(***************************************************************************)
(* Local operations of the annotation store.                               *)
(***************************************************************************)
\* lastOp: the operation, the id it was about, for an inbound message the
\* handler of the hook that handleMessage invoked, and whether the operation
\* found history entries after the pointer
HadRedo == historyIndex < Len(history) - 1

Op(name, id) == [op |-> name, id |-> id, handler |-> "", hadRedo |-> HadRedo]

\* category a drawn annotation gets from the store's mode
ModeCategory(m) ==
    IF m = "viewport" THEN "profile" ELSE IF m = "model" THEN "model" ELSE "ocr"

MaxTimers == 2

\* setTimeout(() => get().saveToLocalStorage(), 100): one more callback pending
Scheduled(timers) == IF timers < MaxTimers THEN timers + 1 ELSE timers

\* the annotation addAnnotation stores for its argument
nextAnnotation(annotation, m, count) ==
    LET category == IF annotation.category # "" THEN annotation.category
                    ELSE ModeCategory(m)
    IN Spread(annotation, [id |-> ensureUuid(annotation.id, count).id, category |-> category])

addAnnotation(annotation) ==
    /\ SetAndSaveHistory(Append(annotations, nextAnnotation(annotation, mode, uuidCount)),
                         pendingAnnotations, selectedIds)
    /\ uuidCount' = IF ensureUuid(annotation.id, uuidCount).fresh THEN uuidCount + 1 ELSE uuidCount
    /\ mode' = mode
    /\ saveTimers' = Scheduled(saveTimers)

updateAnnotation(id, updates) ==
    /\ SetAndSaveHistory(
           [i \in DOMAIN annotations |->
               IF annotations[i].id = id THEN Spread(annotations[i], updates)
               ELSE annotations[i]],
           pendingAnnotations, selectedIds)
    /\ saveTimers' = Scheduled(saveTimers)
    /\ UNCHANGED <<mode, uuidCount>>

\* filterChildren of deleteAnnotation: TRUE for the annotations that stay
filterChildren(ann, target) ==
    IF ann.parentId # "" THEN ann.parentId # target.id
    ELSE ~isAnnotationInsideProfile(ann, target)

\* state.annotations.find((ann) => ann.id === id): index of the first match, 0 if none
FindIndex(anns, id) ==
    IF \E i \in DOMAIN anns : anns[i].id = id
    THEN CHOOSE i \in DOMAIN anns :
            /\ anns[i].id = id
            /\ \A j \in DOMAIN anns : anns[j].id = id => i <= j
    ELSE 0

deleteAnnotation(id) ==
    LET t == FindIndex(annotations, id)
        remainingAnnotations == SelectSeq(annotations, LAMBDA ann : ann.id # id)
    IN /\ IF t # 0 /\ isProfileAnnotation(annotations[t])
          THEN LET target == annotations[t]
                   keep(ann) == filterChildren(ann, target)
                   removedLoadedChildren == SelectSeq(remainingAnnotations, LAMBDA ann : ~keep(ann))
                   newSelected == {sel \in selectedIds :
                                      sel # id /\ sel \notin Ids(removedLoadedChildren)}
               IN SetAndSaveHistory(SelectSeq(remainingAnnotations, keep),
                                    SelectSeq(pendingAnnotations, keep),
                                    newSelected)
          ELSE SetAndSaveHistory(remainingAnnotations, pendingAnnotations, selectedIds \ {id})
       /\ saveTimers' = Scheduled(saveTimers)
       /\ UNCHANGED <<mode, uuidCount>>

\* filterChildrenOfProfiles of deleteSelected: TRUE for the annotations that stay
filterChildrenOfProfiles(ann, selectedProfiles) ==
    ~\E profile \in selectedProfiles :
        IF ann.parentId # "" THEN ann.parentId = profile.id
        ELSE isAnnotationInsideProfile(ann, profile)

deleteSelected ==
    /\ selectedIds # {}
    /\ LET selectedProfiles == {ann \in Range(annotations) :
                                   ann.id \in selectedIds /\ isProfileAnnotation(ann)}
           keep(ann) == filterChildrenOfProfiles(ann, selectedProfiles)
           remainingAnnotations ==
               SelectSeq(SelectSeq(annotations, LAMBDA ann : ann.id \notin selectedIds), keep)
       IN SetAndSaveHistory(remainingAnnotations, SelectSeq(pendingAnnotations, keep), {})
    /\ saveTimers' = Scheduled(saveTimers)
    /\ UNCHANGED <<mode, uuidCount>>

setSelected(ids) ==
    /\ selectedIds' = ids
    /\ UNCHANGED <<annotations, pendingAnnotations, history, historyIndex, mode, uuidCount, saveTimers>>

toggleSelected(id) ==
    /\ selectedIds' = IF id \in selectedIds THEN selectedIds \ {id} ELSE selectedIds \cup {id}
    /\ UNCHANGED <<annotations, pendingAnnotations, history, historyIndex, mode, uuidCount, saveTimers>>

clearSelection ==
    /\ selectedIds' = {}
    /\ UNCHANGED <<annotations, pendingAnnotations, history, historyIndex, mode, uuidCount, saveTimers>>

setMode(m) ==
    /\ mode' = m
    /\ selectedIds' = {}
    /\ UNCHANGED <<annotations, pendingAnnotations, history, historyIndex, uuidCount, saveTimers>>

undoAction ==
    LET r == undo(history, historyIndex, annotations)
    IN /\ annotations' = r.annotations
       /\ historyIndex' = r.historyIndex
       /\ UNCHANGED <<pendingAnnotations, selectedIds, history, mode, uuidCount, saveTimers>>

redoAction ==
    LET r == redo(history, historyIndex, annotations)
    IN /\ annotations' = r.annotations
       /\ historyIndex' = r.historyIndex
       /\ UNCHANGED <<pendingAnnotations, selectedIds, history, mode, uuidCount, saveTimers>>

clearAll ==
    /\ annotations' = <<>>
    /\ pendingAnnotations' = <<>>
    /\ selectedIds' = {}
    /\ history' = <<>>
    /\ historyIndex' = -1
    /\ UNCHANGED <<mode, uuidCount, saveTimers>>

(***************************************************************************)
(* Import and lazy activation.                                             *)
(***************************************************************************)
\* partitionAnnotationsForLazyLoad: TRUE for the annotations pushed to `profile`
GoesToProfilePartition(ann) ==
    \/ isProfileAnnotation(ann)
    \/ ann.category = "ocr"
    \/ ann.category = "model"
    \/ ann.category = "profile"

partitionAnnotationsForLazyLoad(anns) ==
    [profile |-> SelectSeq(anns, GoesToProfilePartition),
     deferred |-> SelectSeq(anns, LAMBDA ann : ~GoesToProfilePartition(ann))]

\* json is the parsed payload: [kind |-> "unparseable"], [kind |-> "noArray"]
\* or [kind |-> "array", annotations |-> <<...>>]; threw is what the caller sees
\* how a call of importAnnotations ends: JSON.parse throws and the catch
\* rethrows, the array is applied, or the if is skipped and the call returns
importOutcome(json) ==
    IF json.kind = "unparseable" THEN "threw"
    ELSE IF json.kind = "array" THEN "applied"
    ELSE "returned"

importAnnotations(json) ==
    /\ IF json.kind = "array"
       THEN LET parts == partitionAnnotationsForLazyLoad(json.annotations)
            IN SetAndSaveHistory(parts.profile, parts.deferred, {})
       ELSE UNCHANGED <<annotations, pendingAnnotations, selectedIds, history, historyIndex>>
    /\ UNCHANGED <<mode, uuidCount, saveTimers>>

\* a filter that follows parentId only
ProfileMatchesByParentId(pending, profile) ==
    SelectSeq(pending, LAMBDA ann : ann.parentId # "" /\ ann.parentId = profile.id)

\* the pending annotations loadAnnotationsForProfile moves
ProfileMatches(pending, profile) ==
    SelectSeq(pending, LAMBDA ann :
        IF ann.parentId # "" THEN ann.parentId = profile.id
        ELSE isAnnotationInsideProfile(ann, profile))

loadAnnotationsForProfile(profile) ==
    LET matches == ProfileMatches(pendingAnnotations, profile)
    IN /\ IF Len(pendingAnnotations) = 0 \/ Len(matches) = 0
          THEN UNCHANGED <<annotations, pendingAnnotations, selectedIds, history, historyIndex,
                           saveTimers>>
          ELSE /\ SetAndSaveHistory(annotations \o matches,
                                    SelectSeq(pendingAnnotations,
                                              LAMBDA ann : ann \notin Range(matches)),
                                    selectedIds)
               /\ saveTimers' = Scheduled(saveTimers)
       /\ UNCHANGED <<mode, uuidCount>>

(***************************************************************************)
(* Remote payloads and their conversion.                                   *)
(***************************************************************************)
CoordKeys == {"x", "y", "w", "h", "left", "top", "width", "height",
              "right", "bottom", "x1", "y1", "x2", "y2"}

Coordinates(given) == [k \in CoordKeys |-> IF k \in DOMAIN given THEN <<given[k]>> ELSE <<>>]

\* parseNumber(value, fallback = 0): a default parameter also replaces an
\* explicitly passed undefined
parseNumber(value, fallback) ==
    LET fb == IF fallback = <<>> THEN <<0>> ELSE fallback
    IN IF value # <<>> THEN value ELSE fb

\* a ?? b
Nullish(a, b) == IF a = <<>> THEN b ELSE a

\* typeof hi === "number" && typeof lo === "number" ? hi - lo : undefined
Difference(hi, lo) == IF hi # <<>> /\ lo # <<>> THEN <<hi[1] - lo[1]>> ELSE <<>>

\* Number.isFinite(v) ? v : 0
Safe(v) == IF v # <<>> THEN v[1] ELSE 0

convertRemoteAnnotation(viewportId, remote, count) ==
    LET coords == remote.coordinates
        x == Nullish(parseNumber(coords.x, <<>>),
                 Nullish(parseNumber(coords.left, <<>>), parseNumber(coords.x1, <<0>>)))
        y == Nullish(parseNumber(coords.y, <<>>),
                 Nullish(parseNumber(coords.top, <<>>), parseNumber(coords.y1, <<0>>)))
        widthRaw == Nullish(parseNumber(coords.w, <<>>),
                        Nullish(parseNumber(coords.width, <<>>),
                            Nullish(Difference(coords.right, coords.left),
                                    Difference(coords.x2, coords.x1))))
        heightRaw == Nullish(parseNumber(coords.h, <<>>),
                         Nullish(parseNumber(coords.height, <<>>),
                             Nullish(Difference(coords.bottom, coords.top),
                                     Difference(coords.y2, coords.y1))))
        labelName == Nullish(remote.label, remote.annotation_type)
        label == IF labelName = <<>> THEN "" ELSE labelName[1]
    IN Annotation(ensureUuid(remote.id, count).id, label, inferCategoryFromLabel(label),
                  Safe(x), Safe(y), Safe(widthRaw), Safe(heightRaw),
                  IF remote.viewport_id # "" THEN remote.viewport_id ELSE viewportId)

\* remoteAnnotations.map((remote) => convertRemoteAnnotation(viewportId, remote))
RECURSIVE ConvertAll(_, _, _)
ConvertAll(viewportId, remotes, count) ==
    IF remotes = <<>> THEN <<>>
    ELSE LET fresh == ensureUuid(Head(remotes).id, count).fresh
         IN <<convertRemoteAnnotation(viewportId, Head(remotes), count)>>
            \o ConvertAll(viewportId, Tail(remotes), IF fresh THEN count + 1 ELSE count)

\* number of ids a list of payloads makes ensureUuid generate
FreshCount(remotes) ==
    Cardinality({i \in DOMAIN remotes : ensureUuid(remotes[i].id, 0).fresh})

\* mergedMap.set(ann.id, ann) on a Map kept in insertion order
MapSet(entries, ann) ==
    IF \E i \in DOMAIN entries : entries[i].id = ann.id
    THEN [i \in DOMAIN entries |-> IF entries[i].id = ann.id THEN ann ELSE entries[i]]
    ELSE Append(entries, ann)

RECURSIVE MapSetAll(_, _)
MapSetAll(entries, anns) ==
    IF anns = <<>> THEN entries
    ELSE MapSetAll(MapSet(entries, Head(anns)), Tail(anns))

\* the active annotations ingestAnnotationList keeps
Preserved(anns, viewportId) ==
    SelectSeq(anns, LAMBDA ann :
        \/ isProfileAnnotation(ann)
        \/ ann.parentId = ""
        \/ ann.parentId # viewportId)

ingestAnnotationList(viewportId, remoteAnnotations) ==
    /\ IF viewportId = "" \/ Len(remoteAnnotations) = 0
       THEN UNCHANGED <<annotations, pendingAnnotations, uuidCount>>
       ELSE LET converted == ConvertAll(viewportId, remoteAnnotations, uuidCount)
                preserved == Preserved(annotations, viewportId)
            IN /\ annotations' = MapSetAll(MapSetAll(<<>>, preserved), converted)
               /\ pendingAnnotations' =
                      SelectSeq(pendingAnnotations, LAMBDA ann : ann.parentId # viewportId)
               /\ uuidCount' = uuidCount + FreshCount(remoteAnnotations)
    /\ UNCHANGED <<selectedIds, history, historyIndex, mode, saveTimers>>

\* an upsert that pushes the result on the history
upsertRemoteAndSaveHistory(remoteAnnotation) ==
    LET viewportId == remoteAnnotation.viewport_id
        converted == convertRemoteAnnotation(viewportId, remoteAnnotation, uuidCount)
    IN /\ IF viewportId = ""
          THEN UNCHANGED <<annotations, pendingAnnotations, selectedIds, history, historyIndex,
                           uuidCount>>
          ELSE /\ SetAndSaveHistory(
                      Append(SelectSeq(annotations, LAMBDA ann : ann.id # converted.id), converted),
                      SelectSeq(pendingAnnotations, LAMBDA ann : ann.id # converted.id),
                      selectedIds)
               /\ uuidCount' = uuidCount + FreshCount(<<remoteAnnotation>>)
       /\ UNCHANGED <<mode, saveTimers>>

upsertRemoteAnnotation(remoteAnnotation) ==
    LET viewportId == remoteAnnotation.viewport_id
        converted == convertRemoteAnnotation(viewportId, remoteAnnotation, uuidCount)
    IN /\ IF viewportId = ""
          THEN UNCHANGED <<annotations, pendingAnnotations, uuidCount>>
          ELSE /\ annotations' =
                      Append(SelectSeq(annotations, LAMBDA ann : ann.id # converted.id), converted)
               /\ pendingAnnotations' =
                      SelectSeq(pendingAnnotations, LAMBDA ann : ann.id # converted.id)
               /\ uuidCount' = uuidCount + FreshCount(<<remoteAnnotation>>)
       /\ UNCHANGED <<selectedIds, history, historyIndex, mode, saveTimers>>

removeRemoteAnnotation(annotationId, viewportId) ==
    /\ IF annotationId = ""
       THEN UNCHANGED <<annotations, pendingAnnotations>>
       ELSE /\ annotations' = SelectSeq(annotations, LAMBDA ann : ann.id # annotationId)
            /\ pendingAnnotations' =
                   LET kept == SelectSeq(pendingAnnotations, LAMBDA ann : ann.id # annotationId)
                   IN IF viewportId # ""
                      THEN SelectSeq(kept, LAMBDA ann : ann.parentId # viewportId)
                      ELSE kept
    /\ UNCHANGED <<selectedIds, history, historyIndex, mode, uuidCount, saveTimers>>

(***************************************************************************)
(* Collaboration store.                                                    *)
(***************************************************************************)
COLORS == <<"#f97316", "#6366f1", "#10b981", "#ef4444", "#a855f7",
            "#0ea5e9", "#fbbf24", "#14b8a6", "#d946ef", "#22c55e">>

\* colorCursor is kept modulo COLORS.length, the only way nextColor reads it
nextColor == COLORS[(colorCursor % Len(COLORS)) + 1]

RemoteUser(id, name, color, cursor, selectionId) ==
    [id |-> id, name |-> name, color |-> color, cursor |-> cursor, selectionId |-> selectionId]

\* { ...state.remoteUsers, [userId]: user }
WithUser(users, userId, user) ==
    [u \in DOMAIN users \cup {userId} |-> IF u = userId THEN user ELSE users[u]]

IsLocalUser(userId) == collabLocalUserId # "" /\ collabLocalUserId = userId

setLocalUserId(userId) ==
    /\ collabLocalUserId' = userId
    /\ UNCHANGED <<remoteUsers, colorCursor>>

\* info.cursor and info.selectionId are undefined at the only call site
upsertUser(userId, name) ==
    IF IsLocalUser(userId) THEN UNCHANGED collabVars
    ELSE LET known == userId \in DOMAIN remoteUsers
             color == IF known THEN remoteUsers[userId].color ELSE nextColor
         IN /\ remoteUsers' =
                   WithUser(remoteUsers, userId,
                       RemoteUser(userId,
                           IF name # "" THEN name
                           ELSE IF known THEN remoteUsers[userId].name ELSE "",
                           color,
                           IF known THEN remoteUsers[userId].cursor ELSE <<>>,
                           IF known THEN remoteUsers[userId].selectionId ELSE ""))
            /\ colorCursor' = IF known THEN colorCursor ELSE (colorCursor + 1) % Len(COLORS)
            /\ UNCHANGED collabLocalUserId

removeUser(userId) ==
    IF IsLocalUser(userId) THEN UNCHANGED collabVars
    ELSE /\ remoteUsers' = [u \in DOMAIN remoteUsers \ {userId} |-> remoteUsers[u]]
         /\ UNCHANGED <<collabLocalUserId, colorCursor>>

\* an updateCursor that builds the entry anew on every call
updateCursorAnew(userId, cursor) ==
    IF IsLocalUser(userId) THEN UNCHANGED collabVars
    ELSE /\ remoteUsers' = WithUser(remoteUsers, userId,
                               RemoteUser(userId, "", nextColor, cursor, ""))
         /\ colorCursor' = (colorCursor + 1) % Len(COLORS)
         /\ UNCHANGED collabLocalUserId

updateCursor(userId, cursor) ==
    IF IsLocalUser(userId) THEN UNCHANGED collabVars
    ELSE IF userId \notin DOMAIN remoteUsers
    THEN /\ remoteUsers' = WithUser(remoteUsers, userId,
                               RemoteUser(userId, "", nextColor, cursor, ""))
         /\ colorCursor' = (colorCursor + 1) % Len(COLORS)
         /\ UNCHANGED collabLocalUserId
    ELSE /\ remoteUsers' = WithUser(remoteUsers, userId,
                               [remoteUsers[userId] EXCEPT !.cursor = cursor])
         /\ UNCHANGED <<collabLocalUserId, colorCursor>>

updateSelection(userId, selectionId) ==
    IF IsLocalUser(userId) THEN UNCHANGED collabVars
    ELSE IF userId \notin DOMAIN remoteUsers
    THEN /\ remoteUsers' = WithUser(remoteUsers, userId,
                               RemoteUser(userId, "", nextColor, <<>>, selectionId))
         /\ colorCursor' = (colorCursor + 1) % Len(COLORS)
         /\ UNCHANGED collabLocalUserId
    ELSE /\ remoteUsers' = WithUser(remoteUsers, userId,
                               [remoteUsers[userId] EXCEPT !.selectionId = selectionId])
         /\ UNCHANGED <<collabLocalUserId, colorCursor>>

\* the empty remoteUsers record {}
NoUsers == [u \in {} |-> ""]

reset ==
    /\ remoteUsers' = NoUsers
    /\ UNCHANGED <<collabLocalUserId, colorCursor>>

(***************************************************************************)
(* Realtime client.                                                        *)
(***************************************************************************)
Message(type, payload) == [type |-> type, payload |-> payload]

NoSockets == [closing |-> 0, connecting |-> 0, open |-> 0]

\* a send that does not look at the socket
sendAlways(sent, sock, type, payload) == Append(sent, Message(type, payload))

\* send: the messages sent so far in this operation, with this one added
\* unless the socket is missing or not OPEN
send(sent, sock, type, payload) ==
    IF sock = "null" \/ sock # "OPEN" THEN sent ELSE Append(sent, Message(type, payload))

\* an order in which Set.forEach visits the queue (insertion order is not kept
\* by the model, every order is allowed)
SeqsOf(S) == {q \in [1..Cardinality(S) -> S] : Range(q) = S}

\* flushViewportQueue: the messages sent, for one visiting order of the queue
RECURSIVE SendLists(_, _, _)
SendLists(sent, sock, ids) ==
    IF ids = <<>> THEN sent
    ELSE SendLists(send(sent, sock, "annotation:list", Head(ids)), sock, Tail(ids))

flushViewportQueue(sent, sock, open, order) ==
    IF ~open THEN [sent |-> sent, queue |-> viewportQueue]
    ELSE [sent |-> SendLists(sent, sock, order), queue |-> {}]

connect ==
    /\ IF socket # "null"
       THEN UNCHANGED socket
       ELSE socket' = "CONNECTING"
    /\ outbox' = <<>>
    /\ UNCHANGED <<localUserId, staleSockets, isOpen, heartbeatTimer, viewportQueue, trackedViewports>>

\* the "open" listener of the client's socket
onSocketOpen ==
    /\ socket = "CONNECTING"
    /\ socket' = "OPEN"
    /\ isOpen' = TRUE
    /\ \E order \in SeqsOf(viewportQueue) :
          LET f == flushViewportQueue(<<>>, "OPEN", TRUE, order)
          IN /\ outbox' = f.sent
             /\ viewportQueue' = f.queue
    /\ heartbeatTimer' = TRUE
    /\ UNCHANGED <<localUserId, staleSockets, trackedViewports>>

\* the connection goes down: readyState leaves OPEN before the close event runs
socketGoesDown ==
    /\ socket \in {"CONNECTING", "OPEN"}
    /\ socket' = "CLOSED"
    /\ outbox' = <<>>
    /\ UNCHANGED <<localUserId, staleSockets, isOpen, heartbeatTimer, viewportQueue, trackedViewports>>

\* the "close" listener, run for the socket the client still holds
onSocketClose ==
    /\ socket = "CLOSED"
    /\ isOpen' = FALSE
    /\ heartbeatTimer' = FALSE
    /\ socket' = "null"
    /\ outbox' = <<>>
    /\ UNCHANGED <<localUserId, staleSockets, viewportQueue, trackedViewports>>

\* this.socket as one of the sockets the client holds no longer
Released(sock) ==
    IF sock = "null" THEN staleSockets
    ELSE IF sock = "CONNECTING" THEN [staleSockets EXCEPT !.connecting = @ + 1]
    ELSE IF sock = "OPEN" THEN [staleSockets EXCEPT !.open = @ + 1]
    ELSE [staleSockets EXCEPT !.closing = @ + 1]

\* the "close" listener, run for a socket the client holds no longer (one that
\* disconnect() closed, or one an earlier run of this listener has dropped):
\* this.socket = null drops the socket the client holds now
onStaleSocketClose ==
    /\ \E state \in {"closing", "connecting", "open"} :
          /\ staleSockets[state] > 0
          /\ staleSockets' = [Released(socket) EXCEPT ![state] = @ - 1]
    /\ isOpen' = FALSE
    /\ heartbeatTimer' = FALSE
    /\ socket' = "null"
    /\ outbox' = <<>>
    /\ UNCHANGED <<localUserId, viewportQueue, trackedViewports>>

\* the "open" listener, run for a socket the client holds no longer: send
\* looks at this.socket
onStaleSocketOpen ==
    /\ staleSockets.connecting > 0
    /\ staleSockets' = [staleSockets EXCEPT !.connecting = @ - 1, !.open = @ + 1]
    /\ isOpen' = TRUE
    /\ \E order \in SeqsOf(viewportQueue) :
          LET f == flushViewportQueue(<<>>, socket, TRUE, order)
          IN /\ outbox' = f.sent
             /\ viewportQueue' = f.queue
    /\ heartbeatTimer' = TRUE
    /\ UNCHANGED <<localUserId, socket, trackedViewports>>

\* disconnect: socket.close() leaves the socket CLOSING, its close event is due
disconnect ==
    /\ heartbeatTimer' = FALSE
    /\ staleSockets' = IF socket = "null" THEN staleSockets
                       ELSE [staleSockets EXCEPT !.closing = @ + 1]
    /\ socket' = "null"
    /\ isOpen' = FALSE
    /\ viewportQueue' = {}
    /\ outbox' = <<>>
    /\ UNCHANGED <<localUserId, trackedViewports>>

\* requestAnnotationLists over the newly tracked ids, in the order given
RECURSIVE requestAnnotationLists(_, _, _, _)
requestAnnotationLists(sent, queue, sock, ids) ==
    IF ids = <<>> THEN [sent |-> sent, queue |-> queue]
    ELSE IF Head(ids) = "" THEN requestAnnotationLists(sent, queue, sock, Tail(ids))
    ELSE IF ~isOpen THEN requestAnnotationLists(sent, queue \cup {Head(ids)}, sock, Tail(ids))
    ELSE requestAnnotationLists(send(sent, sock, "annotation:list", Head(ids)), queue, sock, Tail(ids))

\* viewportIds is an array without repetitions (the ids of the profile annotations)
setTrackedViewports(viewportIds) ==
    LET newlyTracked == SelectSeq(viewportIds, LAMBDA id : id # "" /\ id \notin trackedViewports)
        r == requestAnnotationLists(<<>>, viewportQueue, socket, newlyTracked)
    IN /\ trackedViewports' = trackedViewports \cup Range(newlyTracked)
       /\ outbox' = r.sent
       /\ viewportQueue' = r.queue
       /\ UNCHANGED <<localUserId, socket, staleSockets, isOpen, heartbeatTimer>>

\* the setInterval callback of startHeartbeat
heartbeatTick ==
    /\ heartbeatTimer
    /\ \E order \in SeqsOf(viewportQueue) :
          LET f == flushViewportQueue(send(<<>>, socket, "presence:ping", ""), socket, isOpen, order)
          IN /\ outbox' = f.sent
             /\ viewportQueue' = f.queue
    /\ UNCHANGED <<localUserId, socket, staleSockets, isOpen, heartbeatTimer, trackedViewports>>

\* RealtimeClient.updateCursor; the payload is reduced to the image point
clientUpdateCursor(point) ==
    /\ outbox' = IF ~isOpen THEN <<>> ELSE send(<<>>, socket, "cursor:update", point)
    /\ UNCHANGED <<localUserId, socket, staleSockets, isOpen, heartbeatTimer, viewportQueue,
                   trackedViewports>>

\* RealtimeClient.updateSelection
clientUpdateSelection(annotationId) ==
    /\ outbox' = IF ~isOpen THEN <<>>
                 ELSE IF annotationId # "" THEN send(<<>>, socket, "selection:update", annotationId)
                 ELSE send(<<>>, socket, "selection:clear", "")
    /\ UNCHANGED <<localUserId, socket, staleSockets, isOpen, heartbeatTimer, viewportQueue,
                   trackedViewports>>

(***************************************************************************)
(* Handlers of the annotator component that call the store.                *)
(***************************************************************************)
\* first label of the catalog the store shows in mode m (getActiveLabelConfig)
ActiveLabelName(m) ==
    IF m = "viewport" THEN "Column Schedule" ELSE IF m = "model" THEN "T1" ELSE "Sheetno"

\* store.annotations.find(...): the first profile-labelled annotation containing rect
ContainingProfileId(anns, rect) ==
    LET hits == {i \in DOMAIN anns :
                    isProfileAnnotation(anns[i]) /\ isAnnotationInsideProfile(rect, anns[i])}
    IN IF hits = {} THEN ""
       ELSE anns[CHOOSE i \in hits : \A j \in hits : i <= j].id

\* the annotation handleMouseUp builds from the drawn rectangle; its id is
\* `ann-${Date.now()}`, which UUID_REGEX rejects
DrawnAnnotation(rect) ==
    Annotation("ann-now", ActiveLabelName(mode), "", rect.x, rect.y, rect.w, rect.h,
               IF mode \in {"model", "ocr"} THEN ContainingProfileId(annotations, rect) ELSE "")

\* handleMouseUp, draw completion: store.addAnnotation(annotation) and then
\* store.setSelected([annotation.id])
handleMouseUp(rect) ==
    LET annotation == DrawnAnnotation(rect)
    IN /\ rect.w > 4 /\ rect.h > 4
       /\ SetAndSaveHistory(Append(annotations, nextAnnotation(annotation, mode, uuidCount)),
                            pendingAnnotations, {annotation.id})
       /\ uuidCount' = IF ensureUuid(annotation.id, uuidCount).fresh THEN uuidCount + 1
                       ELSE uuidCount
       /\ mode' = mode
       /\ saveTimers' = Scheduled(saveTimers)

(***************************************************************************)
(* Numbers of the canvas geometry.  Scales, offsets and coordinates are    *)
(* rationals n/d in lowest terms with d > 0, and the arithmetic on them is *)
(* exact: the rounding of the doubles the program computes with is not     *)
(* part of the model.                                                      *)
(***************************************************************************)
Abs(n) == IF n < 0 THEN 0 - n ELSE n

RECURSIVE GCD(_, _)
GCD(a, b) == IF b = 0 THEN a ELSE GCD(b, a % b)

Ratio(n, d) ==
    LET g == GCD(Abs(n), Abs(d))
        sign == IF d < 0 THEN 0 - 1 ELSE 1
    IN [n |-> sign * (n \div g), d |-> sign * (d \div g)]

Whole(n) == [n |-> n, d |-> 1]

Plus(a, b) ==
    LET g == GCD(a.d, b.d)
    IN Ratio(a.n * (b.d \div g) + b.n * (a.d \div g), (a.d \div g) * b.d)

Negated(a) == [n |-> 0 - a.n, d |-> a.d]

Minus(a, b) == Plus(a, Negated(b))

Times(a, b) ==
    LET g1 == GCD(Abs(a.n), b.d)
        g2 == GCD(Abs(b.n), a.d)
    IN Ratio((a.n \div g1) * (b.n \div g2), (a.d \div g2) * (b.d \div g1))

\* a / b for b # 0
Over(a, b) == Times(a, Ratio(b.d, b.n))

Less(a, b) == Minus(a, b).n < 0

AtMost(a, b) == Minus(a, b).n <= 0

\* Math.max and Math.min
MathMax(a, b) == IF Less(a, b) THEN b ELSE a
MathMin(a, b) == IF Less(b, a) THEN b ELSE a

\* Math.abs
MathAbs(a) == [n |-> Abs(a.n), d |-> a.d]

(***************************************************************************)
(* The canvas: transform, scroll offsets and the conversions between       *)
(* screen and image coordinates.                                           *)
(***************************************************************************)
MIN_ZOOM == Ratio(1, 20)
MAX_ZOOM == Whole(8)

\* clientWidth and clientHeight of the scroll container
Viewport == [width |-> Whole(200), height |-> Whole(200)]

Point(x, y) == [x |-> x, y |-> y]

Transform(scale, translateX, translateY) ==
    [scale |-> scale, translateX |-> translateX, translateY |-> translateY]

\* transform of a new store
InitialTransform == Transform(Whole(1), Whole(0), Whole(0))

\* screenToImage, screenX and screenY being relative to the visible canvas
screenToImage(screenX, screenY) ==
    LET canvasX == Plus(screenX, scrollLeft)
        canvasY == Plus(screenY, scrollTop)
    IN Point(Over(Minus(canvasX, transform.translateX), transform.scale),
             Over(Minus(canvasY, transform.translateY), transform.scale))

\* an imageToScreen that leaves the scroll offsets out
imageToCanvas(imageX, imageY) ==
    Point(Plus(Times(imageX, transform.scale), transform.translateX),
          Plus(Times(imageY, transform.scale), transform.translateY))

imageToScreen(imageX, imageY) ==
    LET canvasX == Plus(Times(imageX, transform.scale), transform.translateX)
        canvasY == Plus(Times(imageY, transform.scale), transform.translateY)
    IN Point(Minus(canvasX, scrollLeft), Minus(canvasY, scrollTop))

\* what an assignment to scrollLeft or scrollTop leaves: the value kept within
\* the scrollable extent, the wrapper being as wide as the scaled image and at
\* least as wide as the viewport
Assigned(value, imageSize, scale, viewportSize) ==
    LET extent == MathMax(Whole(0), Minus(Times(imageSize, scale), viewportSize))
    IN MathMax(Whole(0), MathMin(value, extent))

\* the effect that follows a change of the transform: the scroll offsets it
\* leaves for transform t, the offsets being left and top
scrollSyncEffect(t, left, top) ==
    LET wantedLeft == MathMax(Whole(0),
                          MathMin(Minus(t.translateX, Over(Viewport.width, Whole(2))),
                                  Minus(Times(image.width, t.scale), Viewport.width)))
        wantedTop == MathMax(Whole(0),
                         MathMin(Minus(t.translateY, Over(Viewport.height, Whole(2))),
                                 Minus(Times(image.height, t.scale), Viewport.height)))
    IN IF \/ Less(Whole(2), MathAbs(Minus(wantedLeft, left)))
          \/ Less(Whole(2), MathAbs(Minus(wantedTop, top)))
       THEN Point(Assigned(wantedLeft, image.width, t.scale, Viewport.width),
                  Assigned(wantedTop, image.height, t.scale, Viewport.height))
       ELSE Point(left, top)

\* store.setTransform(partial) followed by nothing else
setTransform(partial) ==
    transform' = [f \in DOMAIN transform |->
                     IF f \in DOMAIN partial THEN partial[f] ELSE transform[f]]

\* scale of fitToScreen, the container being laid out
fitScale ==
    LET padding == Whole(40)
        availableWidth ==
            MathMax(Whole(100), Minus(Viewport.width, Times(padding, Whole(2))))
        availableHeight ==
            MathMax(Whole(100), Minus(Viewport.height, Times(padding, Whole(2))))
    IN MathMin(Over(availableWidth, image.width), Over(availableHeight, image.height))

\* fitToScreen and the frame it requests
fitToScreen ==
    IF AtMost(fitScale, Whole(0))
    THEN UNCHANGED <<transform, scrollLeft, scrollTop>>
    ELSE LET scaledWidth == Times(image.width, fitScale)
             scaledHeight == Times(image.height, fitScale)
         IN /\ setTransform(Transform(fitScale,
                                      Over(Minus(Viewport.width, scaledWidth), Whole(2)),
                                      Over(Minus(Viewport.height, scaledHeight), Whole(2))))
            /\ scrollLeft' = Whole(0)
            /\ scrollTop' = Whole(0)

\* newScale of zoomAt
zoomedScale(scale, delta) ==
    MathMax(MIN_ZOOM, MathMin(MAX_ZOOM,
        Times(scale, IF delta > 0 THEN Ratio(11, 10) ELSE Ratio(9, 10))))

\* zoomAt with the canvas at the client origin, and the frame it requests
zoomAt(clientX, clientY, delta) ==
    LET scrollX == Plus(clientX, scrollLeft)
        scrollY == Plus(clientY, scrollTop)
        imagePointX == Over(Minus(scrollX, transform.translateX), transform.scale)
        imagePointY == Over(Minus(scrollY, transform.translateY), transform.scale)
        newScale == zoomedScale(transform.scale, delta)
        newTranslateX == Minus(scrollX, Times(imagePointX, newScale))
        newTranslateY == Minus(scrollY, Times(imagePointY, newScale))
    IN /\ setTransform(Transform(newScale, newTranslateX, newTranslateY))
       /\ scrollLeft' =
              Assigned(MathMax(Whole(0),
                               Minus(newTranslateX, Over(Viewport.width, Whole(2)))),
                       image.width, newScale, Viewport.width)
       /\ scrollTop' =
              Assigned(MathMax(Whole(0),
                               Minus(newTranslateY, Over(Viewport.height, Whole(2)))),
                       image.height, newScale, Viewport.height)

\* a pan of the pointer by dx, dy: handleMouseMove with store.isPanning, which
\* keeps the scroll effect from running
pan(dx, dy) ==
    /\ setTransform(Transform(transform.scale, Plus(transform.translateX, dx),
                              Plus(transform.translateY, dy)))
    /\ UNCHANGED <<scrollLeft, scrollTop>>

\* Ctrl+0 and the reset button: store.setTransform({ scale: 1 }); the effect
\* runs unless the user scrolled within the last 150 ms
resetZoom ==
    /\ setTransform([scale |-> Whole(1)])
    /\ \E runs \in BOOLEAN :
          LET synced == scrollSyncEffect([transform EXCEPT !.scale = Whole(1)],
                                         scrollLeft, scrollTop)
          IN /\ scrollLeft' = IF runs THEN synced.x ELSE scrollLeft
             /\ scrollTop' = IF runs THEN synced.y ELSE scrollTop

\* an image of 400 by 400 is loaded, nothing zoomed, panned or scrolled
CanvasInit ==
    /\ image = [width |-> Whole(400), height |-> Whole(400)]
    /\ transform = InitialTransform
    /\ scrollLeft = Whole(0)
    /\ scrollTop = Whole(0)
    /\ viewOps = 0
    /\ marqueeStart = <<>>
    /\ mousePos = Point(Whole(0), Whole(0))
    /\ activeProfileEditId = ""

(***************************************************************************)
(* Inputs.                                                                 *)
(***************************************************************************)
Rect(x, y, w, h) == [x |-> x, y |-> y, w |-> w, h |-> h]

OuterRect == Rect(0, 0, 40, 40)
InnerRect == Rect(10, 10, 20, 20)

DrawRects == {OuterRect, InnerRect}

\* a drag of an annotation out of every profile
DragAway == [x |-> 50, y |-> 50]

\* annotations of an imported file
ImportedProfile == Annotation("s1", "Column Schedule", "profile", 0, 0, 40, 40, "")
ImportedChild == Annotation("s2", "unlisted", "", 50, 50, 10, 10, "s1")
ImportedInside == Annotation("file-3", "unlisted", "", 10, 10, 20, 20, "")
ImportedText == Annotation("file-4", "unlisted", "ocr", 10, 10, 20, 20, "")
\* a profile by category whose label the class map took from outside the catalog
ImportedRegion == Annotation("file-6", "unlisted", "profile", 0, 0, 40, 40, "")

\* an unlinked annotation outside every profile
ImportedOutside == Annotation("file-5", "unlisted", "", 50, 50, 10, 10, "")

ImportPayloads ==
    {[kind |-> "unparseable", annotations |-> <<>>],
     [kind |-> "noArray", annotations |-> <<>>],
     [kind |-> "array", annotations |-> <<ImportedProfile, ImportedChild, ImportedInside>>],
     [kind |-> "array", annotations |-> <<ImportedRegion, ImportedText>>]}

Optional(v) == IF v = "" THEN <<>> ELSE <<v>>

RemotePayload(id, viewportId, coordinates, label, annotationType) ==
    [id |-> id, viewport_id |-> viewportId, coordinates |-> coordinates,
     label |-> Optional(label), annotation_type |-> Optional(annotationType)]

XYWH == Coordinates([x |-> 10, y |-> 10, w |-> 20, h |-> 20])
LeftTop == Coordinates([left |-> 50, top |-> 50, width |-> 10, height |-> 10])

ViewportIds == {"s1", "s3"}

RemotePayloads ==
    {RemotePayload("s2", "s1", XYWH, "T1", ""),
     RemotePayload("s2", "s1", LeftTop, "", "Column Schedule"),
     RemotePayload("s2", "s3", XYWH, "T1", ""),
     RemotePayload("s2", "", XYWH, "T1", "")}

RemoteLists ==
    {<<>>} \cup {<<p>> : p \in RemotePayloads}
    \cup {<<RemotePayload("s2", "s1", XYWH, "T1", ""),
            RemotePayload("s2", "s1", LeftTop, "", "Column Schedule")>>}

(***************************************************************************)
(* Inbound messages: RealtimeClient.handleMessage and the handlers that    *)
(* useRealtimeSync registers.                                              *)
(***************************************************************************)
\* a parsed message; user is message.user?.id, annotation and annotations are
\* <<>> when the field is missing, payload is <<>> or <<[x, y]>> with optional
\* numbers x and y
InboundMessage(type, user, name, viewportId, annotation, annotationList, payload, selectionId) ==
    [type |-> type, user |-> user, name |-> name, viewport_id |-> viewportId,
     annotation |-> annotation, annotations |-> annotationList, payload |-> payload,
     selection_id |-> selectionId]

\* a client that takes no message for its own
neverSelfEcho(message, localId) == FALSE

\* the first test of handleMessage
IsSelfEcho(message, localId) ==
    message.user # "" /\ localId # "" /\ message.user = localId

\* the handler handleMessage invokes for a message it does not drop, "" if none
HandlerFor(message) ==
    IF message.type = "annotation:list"
    THEN IF message.viewport_id # "" /\ message.annotations # <<>> THEN "onAnnotationList" ELSE ""
    ELSE IF message.type = "annotation:created"
    THEN IF message.annotation # <<>> THEN "onAnnotationCreated" ELSE ""
    ELSE IF message.type \in {"annotation:updated", "annotation:conflict"}
    THEN IF message.annotation # <<>> THEN "onAnnotationUpdated" ELSE ""
    ELSE IF message.type = "annotation:deleted"
    THEN IF message.annotation # <<>> THEN "onAnnotationDeleted" ELSE ""
    ELSE IF message.type = "cursor:update"
    THEN IF message.user # "" /\ message.payload # <<>> THEN "onCursorUpdate" ELSE ""
    ELSE IF message.type = "presence:join"
    THEN IF message.user # "" THEN "onPresenceJoin" ELSE ""
    ELSE IF message.type = "presence:leave"
    THEN IF message.user # "" THEN "onPresenceLeave" ELSE ""
    ELSE IF message.type \in {"selection:update", "selection:clear"}
    THEN IF message.user # "" THEN "onSelectionUpdate" ELSE ""
    ELSE IF message.type = "error" THEN "onError"
    ELSE ""

\* the handler handleMessage ends up invoking
Dispatch(message) ==
    IF IsSelfEcho(message, localUserId) THEN "" ELSE HandlerFor(message)

onAnnotationList(message) ==
    /\ ingestAnnotationList(message.viewport_id, message.annotations[1])
    /\ UNCHANGED collabVars

\* onAnnotationCreated and onAnnotationUpdated have the same body
onAnnotationUpdated(message) ==
    /\ upsertRemoteAnnotation(message.annotation[1])
    /\ UNCHANGED collabVars

onAnnotationDeleted(message) ==
    /\ removeRemoteAnnotation(message.annotation[1].id, message.annotation[1].viewport_id)
    /\ UNCHANGED collabVars

\* Number(payload.x) and Number(payload.y) must be finite
onCursorUpdate(message) ==
    LET payload == message.payload[1]
    IN /\ IF payload.x # <<>> /\ payload.y # <<>>
          THEN updateCursor(message.user, <<payload.x[1], payload.y[1]>>)
          ELSE UNCHANGED collabVars
       /\ UNCHANGED storeVars

onPresenceJoin(message) ==
    /\ upsertUser(message.user, message.name)
    /\ UNCHANGED storeVars

onPresenceLeave(message) ==
    /\ removeUser(message.user)
    /\ UNCHANGED storeVars

\* selection:clear reaches the handler with annotationId null
onSelectionUpdate(message) ==
    /\ updateSelection(message.user,
                       IF message.type = "selection:clear" THEN "" ELSE message.selection_id)
    /\ UNCHANGED storeVars

handleMessage(message) ==
    LET handler == Dispatch(message)
    IN /\ socket = "OPEN" \/ staleSockets.open > 0
       /\ IF handler = "onAnnotationList" THEN onAnnotationList(message)
          ELSE IF handler \in {"onAnnotationCreated", "onAnnotationUpdated"}
          THEN onAnnotationUpdated(message)
          ELSE IF handler = "onAnnotationDeleted" THEN onAnnotationDeleted(message)
          ELSE IF handler = "onCursorUpdate" THEN onCursorUpdate(message)
          ELSE IF handler = "onPresenceJoin" THEN onPresenceJoin(message)
          ELSE IF handler = "onPresenceLeave" THEN onPresenceLeave(message)
          ELSE IF handler = "onSelectionUpdate" THEN onSelectionUpdate(message)
          ELSE UNCHANGED <<storeVars, collabVars>>
       /\ outbox' = <<>>
       /\ UNCHANGED <<localUserId, socket, staleSockets, isOpen, heartbeatTimer, viewportQueue,
                      trackedViewports>>
       /\ lastOp' = [op |-> "handleMessage", id |-> message.user, handler |-> handler,
                      hadRedo |-> HadRedo]
       /\ UNCHANGED <<csvVars, persistVars, canvasVars, viewerVars, remoteApplied, scenario>>

(***************************************************************************)
(* The viewer store (useAnnotationStore.ts): annotations per image with    *)
(* one history of snapshots of the current image.                          *)
(***************************************************************************)
ImageIds == {"img1", "img2"}

ViewerAnnotation(id, x, y, width, height, label) ==
    [id |-> id, x |-> x, y |-> y, width |-> width, height |-> height, label |-> label]

\* generateId: `ann-${Date.now()}-${random}`, a new id at every call
generateId(count) == <<"v1", "v2", "v3">>[count + 1]

\* saveSnapshot on history h with pointer idx, anns being the annotations of
\* the current image
saveSnapshot(h, idx, anns) ==
    LET newHistory == Append(SubSeq(h, 1, idx + 1), anns)
        capped == IF Len(newHistory) > maxHistorySize THEN Tail(newHistory) ELSE newHistory
    IN [history |-> capped, historyIndex |-> Len(capped) - 1]

\* set(...) followed by get().saveSnapshot(); saveSnapshot returns early
\* without a current image
SetAndSaveSnapshot(imageId, newAnnotations) ==
    /\ viewerAnnotations' = newAnnotations
    /\ IF imageId = "" THEN UNCHANGED <<viewerHistory, viewerHistoryIndex>>
       ELSE LET saved == saveSnapshot(viewerHistory, viewerHistoryIndex, newAnnotations[imageId])
            IN /\ viewerHistory' = saved.history
               /\ viewerHistoryIndex' = saved.historyIndex

setCurrentImage(imageId) ==
    /\ currentImageId' = imageId
    /\ viewerSelectedIds' = {}
    /\ SetAndSaveSnapshot(imageId, viewerAnnotations)
    /\ UNCHANGED viewerIdCount

viewerAddAnnotation(annotationData) ==
    IF currentImageId = "" THEN UNCHANGED viewerVars
    ELSE LET annotation == [annotationData EXCEPT !.id = generateId(viewerIdCount)]
         IN /\ SetAndSaveSnapshot(currentImageId,
                   [viewerAnnotations EXCEPT ![currentImageId] = Append(@, annotation)])
            /\ viewerSelectedIds' = {annotation.id}
            /\ viewerIdCount' = viewerIdCount + 1
            /\ UNCHANGED currentImageId

viewerUpdateAnnotation(id, updates) ==
    IF currentImageId = "" THEN UNCHANGED viewerVars
    ELSE /\ SetAndSaveSnapshot(currentImageId,
                [viewerAnnotations EXCEPT ![currentImageId] =
                    [i \in DOMAIN @ |-> IF @[i].id = id THEN Spread(@[i], updates) ELSE @[i]]])
         /\ UNCHANGED <<currentImageId, viewerSelectedIds, viewerIdCount>>

viewerUndo ==
    IF viewerHistoryIndex <= 0 \/ currentImageId = "" THEN UNCHANGED viewerVars
    ELSE /\ viewerAnnotations' =
                [viewerAnnotations EXCEPT ![currentImageId] = viewerHistory[viewerHistoryIndex]]
         /\ viewerHistoryIndex' = viewerHistoryIndex - 1
         /\ viewerSelectedIds' = {}
         /\ UNCHANGED <<currentImageId, viewerHistory, viewerIdCount>>

viewerRedo ==
    IF viewerHistoryIndex >= Len(viewerHistory) - 1 \/ currentImageId = ""
    THEN UNCHANGED viewerVars
    ELSE /\ viewerAnnotations' =
                [viewerAnnotations EXCEPT ![currentImageId] = viewerHistory[viewerHistoryIndex + 2]]
         /\ viewerHistoryIndex' = viewerHistoryIndex + 1
         /\ viewerSelectedIds' = {}
         /\ UNCHANGED <<currentImageId, viewerHistory, viewerIdCount>>

(***************************************************************************)
(* The annotation store under the local operations.                        *)
(***************************************************************************)
ClientInit ==
    /\ localUserId = "me"
    /\ socket = "null"
    /\ staleSockets = NoSockets
    /\ isOpen = FALSE
    /\ heartbeatTimer = FALSE
    /\ viewportQueue = {}
    /\ trackedViewports = {}
    /\ outbox = <<>>

CollabInit ==
    /\ remoteUsers = NoUsers
    /\ collabLocalUserId = ""
    /\ colorCursor = 0

StoreInit ==
    /\ annotations = <<>>
    /\ pendingAnnotations = <<>>
    /\ selectedIds = {}
    /\ history = <<>>
    /\ historyIndex = -1
    /\ mode = "viewport"
    /\ uuidCount = 0

\* createInitialState of the viewer store
ViewerInit ==
    /\ currentImageId = ""
    /\ viewerAnnotations = [img \in ImageIds |-> <<>>]
    /\ viewerSelectedIds = {}
    /\ viewerHistory = <<>>
    /\ viewerHistoryIndex = -1
    /\ viewerIdCount = 0

NoScenario == [phase |-> "none", updates |-> 0, undos |-> 0]

\* no conversion has been asked for
NoCsvInput == [rows |-> <<>>, category |-> "model", imageId |-> ""]

CsvInit ==
    /\ csvInput = NoCsvInput
    /\ csvAnnotations = <<>>

\* the item written after setImage, and no save pending
\* the images of the session; each has been loaded once, so that the save
\* setImage schedules has left an item for it
ImageUrls == {"imgA", "imgB"}

PersistInit ==
    /\ saveTimers = 0
    /\ localStorageItem = [url \in ImageUrls |->
                               [annotations |-> <<>>, transform |-> InitialTransform]]
    /\ imageUrl = "imgA"

Init ==
    /\ StoreInit
    /\ ClientInit
    /\ CollabInit
    /\ ViewerInit
    /\ lastOp = [op |-> "init", id |-> "", handler |-> "", hadRedo |-> FALSE]
    /\ remoteApplied = {}
    /\ scenario = NoScenario
    /\ CsvInit
    /\ PersistInit
    /\ CanvasInit

\* room for one more snapshot, for n more annotations, for n more generated ids
CanSnapshot == historyIndex + 2 <= MaxHistory
CanHold(n) == Len(annotations) + Len(pendingAnnotations) + n <= MaxAnnotations
CanGenerate(n) == uuidCount + n <= MaxUuids

\* a local operation ends the run of undo and redo calls after a remote one
LocalOnly == /\ UNCHANGED <<csvVars, persistVars, canvasVars, clientVars, collabVars, viewerVars, scenario>>
             /\ remoteApplied' = {}

Draw ==
    /\ CanSnapshot /\ CanHold(1) /\ CanGenerate(1)
    /\ \E rect \in DrawRects : handleMouseUp(rect)
    /\ lastOp' = Op("handleMouseUp", generateUuid(uuidCount))
    /\ LocalOnly

\* a drag: store.updateAnnotation(id, { x, y })
Update ==
    /\ CanSnapshot
    /\ \E id \in Ids(annotations) :
          /\ updateAnnotation(id, DragAway)
          /\ lastOp' = Op("updateAnnotation", id)
    /\ LocalOnly

\* openTextEditor admits OCR annotations only
isOcrAnnotation(ann) ==
    ann.category = "ocr" \/ (ann.label # "" /\ ann.label \in OCR_LABEL_CONFIG)

\* finalizeOcrTextEditing: store.updateAnnotation(editingId, { label: newText })
EditText ==
    /\ CanSnapshot
    /\ \E i \in DOMAIN annotations :
          /\ isOcrAnnotation(annotations[i])
          /\ updateAnnotation(annotations[i].id, [label |-> "edited"])
          /\ lastOp' = Op("updateAnnotation", annotations[i].id)
    /\ LocalOnly

Delete ==
    /\ CanSnapshot
    /\ \E id \in Ids(annotations) :
          /\ deleteAnnotation(id)
          /\ lastOp' = Op("deleteAnnotation", id)
    /\ LocalOnly

DeleteSelected ==
    /\ CanSnapshot
    /\ deleteSelected
    /\ lastOp' = Op("deleteSelected", "")
    /\ LocalOnly

\* a click selects one annotation, a marquee over the whole image all of them
Select ==
    /\ \E ids \in {{id} : id \in Ids(annotations)} \cup {Ids(annotations)} :
          /\ ids # {}
          /\ setSelected(ids)
    /\ lastOp' = Op("setSelected", "")
    /\ LocalOnly

Toggle ==
    /\ \E id \in Ids(annotations) :
          /\ toggleSelected(id)
          /\ lastOp' = Op("toggleSelected", id)
    /\ LocalOnly

ClearSelection ==
    /\ clearSelection
    /\ lastOp' = Op("clearSelection", "")
    /\ LocalOnly

SetMode ==
    /\ \E m \in {"viewport", "ocr"} : setMode(m)
    /\ lastOp' = Op("setMode", "")
    /\ LocalOnly

Undo ==
    /\ undoAction
    /\ lastOp' = Op("undo", "")
    /\ UNCHANGED <<csvVars, persistVars, canvasVars, clientVars, collabVars, viewerVars, scenario, remoteApplied>>

Redo ==
    /\ redoAction
    /\ lastOp' = Op("redo", "")
    /\ UNCHANGED <<csvVars, persistVars, canvasVars, clientVars, collabVars, viewerVars, scenario, remoteApplied>>

\* a file whose profile holds one of its two unlinked annotations
LazyPayload ==
    [kind |-> "array", annotations |-> <<ImportedProfile, ImportedInside, ImportedOutside>>]

ImportFrom(payloads) ==
    /\ CanSnapshot
    /\ \E json \in payloads :
          /\ Len(json.annotations) <= MaxAnnotations
          /\ importAnnotations(json)
          /\ lastOp' = Op(IF importOutcome(json) = "applied" THEN "importAnnotations"
                          ELSE IF importOutcome(json) = "threw" THEN "importAnnotations:threw"
                          ELSE "importAnnotations:returned", json.kind)
    /\ LocalOnly

Import == ImportFrom(ImportPayloads)

\* a click on a profile in viewport mode
LoadProfile ==
    /\ CanSnapshot
    /\ \E i \in DOMAIN annotations :
          /\ isProfileAnnotation(annotations[i])
          /\ loadAnnotationsForProfile(annotations[i])
          /\ lastOp' = Op(IF Len(ProfileMatches(pendingAnnotations, annotations[i])) = 0
                          THEN "loadAnnotationsForProfile:none"
                          ELSE "loadAnnotationsForProfile", annotations[i].id)
    /\ LocalOnly

ClearAll ==
    /\ clearAll
    /\ lastOp' = Op("clearAll", "")
    /\ LocalOnly

Next ==
    \/ Draw
    \/ Update
    \/ EditText
    \/ Delete
    \/ DeleteSelected
    \/ Select
    \/ SetMode
    \/ Undo
    \/ Redo
    \/ Import
    \/ LoadProfile
    \/ ClearAll

Spec == Init /\ [][Next]_vars

(***************************************************************************)
(* The annotation store under remote operations mixed with local edits.    *)
(***************************************************************************)
RemoteOnly == UNCHANGED <<csvVars, persistVars, canvasVars, clientVars, collabVars, viewerVars, scenario>>

IngestStep(viewportId, remoteAnnotations) ==
    /\ ingestAnnotationList(viewportId, remoteAnnotations)
    /\ lastOp' = Op("ingestAnnotationList", viewportId)
    /\ remoteApplied' = IF viewportId = "" \/ Len(remoteAnnotations) = 0 THEN {}
                        ELSE Range(ConvertAll(viewportId, remoteAnnotations, uuidCount))
                             \cap Range(annotations')
    /\ RemoteOnly

Ingest ==
    \E viewportId \in ViewportIds, remoteAnnotations \in RemoteLists :
        /\ CanHold(Len(remoteAnnotations))
        /\ CanGenerate(FreshCount(remoteAnnotations))
        /\ IngestStep(viewportId, remoteAnnotations)

UpsertStep(remote) ==
    /\ upsertRemoteAnnotation(remote)
    /\ lastOp' = Op("upsertRemoteAnnotation",
                    IF remote.viewport_id = "" THEN ""
                    ELSE ensureUuid(remote.id, uuidCount).id)
    /\ remoteApplied' = IF remote.viewport_id = "" THEN {}
                        ELSE {convertRemoteAnnotation(remote.viewport_id, remote, uuidCount)}
    /\ RemoteOnly

Upsert ==
    \E remote \in RemotePayloads :
        /\ CanHold(1)
        /\ CanGenerate(FreshCount(<<remote>>))
        /\ UpsertStep(remote)

RemoveRemote ==
    /\ \E id \in Ids(annotations) \cup Ids(pendingAnnotations), viewportId \in ViewportIds \cup {""} :
          /\ removeRemoteAnnotation(id, viewportId)
          /\ lastOp' = Op("removeRemoteAnnotation", id)
    /\ remoteApplied' = {}
    /\ RemoteOnly

NextRemote ==
    \/ Import
    \/ Undo
    \/ Redo
    \/ Ingest
    \/ Upsert
    \/ RemoveRemote

SpecRemote == Init /\ [][NextRemote]_vars

(***************************************************************************)
(* The two histories under long runs of edits, undo and redo.  The stores  *)
(* share no state, so each is driven while the other rests in its initial  *)
(* state.                                                                  *)
(***************************************************************************)
\* what loadFromLocalStorage leaves: the stored annotations and no history
LoadedAnnotation == Annotation("s1", "T1", "model", 0, 0, 10, 10, "")

InitHistory ==
    /\ annotations = <<LoadedAnnotation>>
    /\ pendingAnnotations = <<>>
    /\ selectedIds = {}
    /\ history = <<>>
    /\ historyIndex = -1
    /\ mode = "viewport"
    /\ uuidCount = 0
    /\ ClientInit
    /\ CollabInit
    /\ ViewerInit
    /\ lastOp = [op |-> "init", id |-> "", handler |-> "", hadRedo |-> FALSE]
    /\ remoteApplied = {}
    /\ scenario = [phase |-> "updating", updates |-> 0, undos |-> 0]
    /\ CsvInit
    /\ PersistInit
    /\ CanvasInit

StoreRests == history = <<>>
ViewerRests == currentImageId = ""

HistoryFrame == UNCHANGED <<csvVars, persistVars, canvasVars, clientVars, collabVars, viewerVars, remoteApplied>>
ViewerFrame == UNCHANGED <<csvVars, persistVars, canvasVars, storeVars, clientVars, collabVars, remoteApplied, scenario>>

\* a drag of the annotation by one unit: store.updateAnnotation(id, { x })
HistoryEdit ==
    /\ ViewerRests
    /\ annotations[1].x < MaxUpdates
    /\ updateAnnotation(annotations[1].id, [x |-> annotations[1].x + 1])
    /\ lastOp' = Op("updateAnnotation", annotations[1].id)
    /\ scenario' = IF scenario.phase = "updating"
                   THEN [scenario EXCEPT !.updates = @ + 1]
                   ELSE NoScenario
    /\ HistoryFrame

HistoryUndo ==
    /\ ViewerRests
    /\ undoAction
    /\ lastOp' = Op("undo", "")
    /\ scenario' = IF scenario.phase \in {"updating", "undoing"}
                      /\ scenario.undos < scenario.updates
                   THEN [scenario EXCEPT !.phase = "undoing", !.undos = @ + 1]
                   ELSE NoScenario
    /\ HistoryFrame

HistoryRedo ==
    /\ ViewerRests
    /\ redoAction
    /\ lastOp' = Op("redo", "")
    /\ scenario' = NoScenario
    /\ HistoryFrame

ViewerSelectImage ==
    /\ StoreRests
    /\ currentImageId = ""
    /\ \E imageId \in ImageIds : setCurrentImage(imageId)
    /\ lastOp' = Op("viewer.setCurrentImage", "")
    /\ ViewerFrame

ViewerAdd ==
    /\ StoreRests
    /\ currentImageId # ""
    /\ viewerAnnotations[currentImageId] = <<>>
    /\ viewerIdCount < MaxViewerIds
    /\ viewerAddAnnotation(ViewerAnnotation("", 0, 0, 10, 10, "Column"))
    /\ lastOp' = Op("viewer.addAnnotation", generateId(viewerIdCount))
    /\ ViewerFrame

ViewerEdit ==
    /\ StoreRests
    /\ currentImageId # ""
    /\ \E i \in DOMAIN viewerAnnotations[currentImageId] :
          LET ann == viewerAnnotations[currentImageId][i]
          IN /\ ann.x < MaxUpdates
             /\ viewerUpdateAnnotation(ann.id, [x |-> ann.x + 1])
             /\ lastOp' = Op("viewer.updateAnnotation", ann.id)
    /\ ViewerFrame

ViewerUndo ==
    /\ StoreRests
    /\ viewerUndo
    /\ lastOp' = Op("viewer.undo", "")
    /\ ViewerFrame

ViewerRedo ==
    /\ StoreRests
    /\ viewerRedo
    /\ lastOp' = Op("viewer.redo", "")
    /\ ViewerFrame

NextHistory ==
    \/ HistoryEdit
    \/ HistoryUndo
    \/ HistoryRedo
    \/ ViewerSelectImage
    \/ ViewerAdd
    \/ ViewerEdit
    \/ ViewerUndo
    \/ ViewerRedo

SpecHistory == InitHistory /\ [][NextHistory]_vars

(***************************************************************************)
(* One realtime session: the client of useRealtimeSync with its socket,    *)
(* the messages it receives and the edits the user makes meanwhile.        *)
(***************************************************************************)
\* the state after the effects of useRealtimeSync ran: setLocalUserId with the
\* decoded id (if there is one) and client.connect()
InitSync ==
    /\ StoreInit
    /\ localUserId = "me"
    /\ socket = "CONNECTING"
    /\ staleSockets = NoSockets
    /\ isOpen = FALSE
    /\ heartbeatTimer = FALSE
    /\ viewportQueue = {}
    /\ trackedViewports = {}
    /\ outbox = <<>>
    /\ remoteUsers = NoUsers
    /\ collabLocalUserId = localUserId
    /\ colorCursor = 0
    /\ ViewerInit
    /\ lastOp = [op |-> "init", id |-> "", handler |-> "", hadRedo |-> FALSE]
    /\ remoteApplied = {}
    /\ scenario = NoScenario
    /\ CsvInit
    /\ PersistInit
    /\ CanvasInit

\* annotations the server sends: for a remote annotation, for the annotation
\* the user drew, and one without viewport_id
ServerAnnotations ==
    {RemotePayload("s2", "s1", XYWH, "T1", ""),
     RemotePayload("g1", "s1", LeftTop, "T1", ""),
     RemotePayload("g1", "", XYWH, "T1", "")}

CursorPayload == [x |-> <<30>>, y |-> <<30>>]

InboundMessages ==
    {InboundMessage(type, "", "", "", <<annotation>>, <<>>, <<>>, "") :
        type \in {"annotation:updated", "annotation:conflict"},
        annotation \in ServerAnnotations}
    \cup {InboundMessage("annotation:deleted", "", "", "",
                         <<RemotePayload("s2", "s1", XYWH, "T1", "")>>, <<>>, <<>>, "")}
    \cup {InboundMessage("annotation:list", "", "", "s1", <<>>,
                         <<<<RemotePayload("s2", "s1", XYWH, "T1", "")>>>>, <<>>, "")}
    \cup {InboundMessage(type, "u1", "", "", <<>>, <<>>, <<CursorPayload>>, "s2") :
            type \in {"presence:join", "selection:update"}}
    \cup {InboundMessage(type, "me", "", "s1",
                         <<RemotePayload("s2", "s1", XYWH, "T1", "")>>,
                         <<<<RemotePayload("s2", "s1", XYWH, "T1", "")>>>>,
                         <<CursorPayload>>, "s2") :
            type \in {"annotation:list", "annotation:updated", "annotation:conflict",
                      "annotation:deleted", "cursor:update", "presence:join",
                      "presence:leave", "selection:update", "selection:clear", "error"}}

\* the session makes at most MaxSyncEdits edits
CanEdit == Len(history) < MaxSyncEdits /\ CanSnapshot

SyncFrame == UNCHANGED <<csvVars, persistVars, canvasVars, collabVars, viewerVars, scenario>>

ClientFrame == UNCHANGED <<csvVars, persistVars, canvasVars, storeVars, collabVars, viewerVars, remoteApplied, scenario>>

\* an edit or a selection sends nothing: no call of the client follows a store call
SilentEdit ==
    /\ outbox' = <<>>
    /\ UNCHANGED <<localUserId, socket, staleSockets, isOpen, heartbeatTimer, viewportQueue,
                   trackedViewports>>
    /\ remoteApplied' = {}
    /\ SyncFrame

SocketOpen ==
    /\ onSocketOpen
    /\ lastOp' = Op("onSocketOpen", "")
    /\ ClientFrame

Receive == \E message \in InboundMessages : handleMessage(message)

SyncDraw ==
    /\ CanEdit /\ CanHold(1) /\ CanGenerate(1)
    /\ handleMouseUp(OuterRect)
    /\ lastOp' = Op("handleMouseUp", generateUuid(uuidCount))
    /\ SilentEdit

\* mouse down on an annotation selects it: the pointer is over the annotation
\* added last
SyncSelect ==
    /\ annotations # <<>>
    /\ setSelected({annotations[Len(annotations)].id})
    /\ lastOp' = Op("setSelected", "")
    /\ SilentEdit

\* a drag moves the selected annotations
SyncUpdate ==
    /\ CanEdit
    /\ \E id \in Ids(annotations) \cap selectedIds :
          /\ updateAnnotation(id, DragAway)
          /\ lastOp' = Op("updateAnnotation", id)
    /\ SilentEdit

SyncDelete ==
    /\ CanEdit
    /\ deleteSelected
    /\ lastOp' = Op("deleteSelected", "")
    /\ SilentEdit

\* the selection effect of the annotator: sendSelectionUpdate(selectedIdList[0] ?? null);
\* the effect may run for any member of the selection
SendSelection ==
    /\ \E annotationId \in (IF selectedIds = {} THEN {""} ELSE selectedIds) :
          clientUpdateSelection(annotationId)
    /\ lastOp' = Op("updateSelection", "")
    /\ ClientFrame

NextSync ==
    \/ SocketOpen
    \/ Receive
    \/ SyncDraw
    \/ SyncSelect
    \/ SyncUpdate
    \/ SyncDelete
    \/ SendSelection

SpecSync == InitSync /\ [][NextSync]_vars

(***************************************************************************)
(* One RealtimeClient and its caller: connect, disconnect, the events of   *)
(* the sockets it created, tracked viewports, heartbeat, cursor, selection.*)
(***************************************************************************)
\* new WebSocket(url) is bounded by the sockets the client has let go of
CanConnect ==
    staleSockets.closing + staleSockets.connecting + staleSockets.open < MaxSockets

Connect ==
    /\ socket = "null" => CanConnect
    /\ connect
    /\ lastOp' = Op("connect", "")
    /\ ClientFrame

Disconnect ==
    /\ disconnect
    /\ lastOp' = Op("disconnect", "")
    /\ ClientFrame

SocketGoesDown ==
    /\ socketGoesDown
    /\ lastOp' = Op("socketGoesDown", "")
    /\ ClientFrame

SocketClose ==
    /\ onSocketClose
    /\ lastOp' = Op("onSocketClose", "")
    /\ ClientFrame

StaleSocketClose ==
    /\ onStaleSocketClose
    /\ lastOp' = Op("onStaleSocketClose", "")
    /\ ClientFrame

StaleSocketOpen ==
    /\ onStaleSocketOpen
    /\ lastOp' = Op("onStaleSocketOpen", "")
    /\ ClientFrame

\* the arrays of profile ids the hook passes
TrackedInputs == UNION {SeqsOf(S) : S \in SUBSET ViewportIds}

TrackViewports ==
    /\ \E viewportIds \in TrackedInputs : setTrackedViewports(viewportIds)
    /\ lastOp' = Op("setTrackedViewports", "")
    /\ ClientFrame

HeartbeatTick ==
    /\ heartbeatTick
    /\ lastOp' = Op("heartbeatTick", "")
    /\ ClientFrame

SendCursor ==
    /\ clientUpdateCursor(CursorPayload)
    /\ lastOp' = Op("updateCursor", "")
    /\ ClientFrame

NextClient ==
    \/ Connect
    \/ Disconnect
    \/ SocketOpen
    \/ SocketGoesDown
    \/ SocketClose
    \/ StaleSocketClose
    \/ StaleSocketOpen
    \/ TrackViewports
    \/ HeartbeatTick
    \/ SendCursor
    \/ SendSelection

SpecClient == Init /\ [][NextClient]_vars

(***************************************************************************)
(* Cascading deletion.                                                     *)
(***************************************************************************)
Everything(active, pending) == Range(active) \cup Range(pending)

\* ann is a descendant of profile: linked by parentId, or unlinked and inside it
DescendantOf(ann, profile) ==
    \/ ann.parentId = profile.id
    \/ ann.parentId = "" /\ isAnnotationInsideProfile(ann, profile)

\* what deleting profile takes out of the state before the deletion
RemovedWith(profile) ==
    {ann \in Everything(annotations, pendingAnnotations) :
        ann.id = profile.id \/ DescendantOf(ann, profile)}

CascadeDone(profile) ==
    /\ \A ann \in Range(annotations') : ann.id # profile.id
    /\ \A ann \in Everything(annotations', pendingAnnotations') : ~DescendantOf(ann, profile)
    /\ \A ann \in RemovedWith(profile) : ann.id \notin selectedIds'

\* a profile: an annotation of category "profile", the category being inferred
\* from the label when the annotation carries none
IsProfile(ann) ==
    \/ ann.category = "profile"
    \/ ann.category = "" /\ inferCategoryFromLabel(ann.label) = "profile"

\* C1: deleting a profile P through deleteAnnotation(P.id) or through
\* deleteSelected removes P, every annotation whose parentId is P.id and every
\* annotation without parentId lying inside P from the active and the pending
\* set, and no removed id stays selected.
C1_CascadingDelete ==
    [][\A profile \in Range(annotations) :
          (/\ IsProfile(profile)
           /\ \/ lastOp'.op = "deleteAnnotation" /\ lastOp'.id = profile.id
              \/ lastOp'.op = "deleteSelected" /\ profile.id \in selectedIds)
          => CascadeDone(profile)]_vars

(***************************************************************************)
(* Remote ingestion.                                                       *)
(***************************************************************************)
\* index of the last item of items that carries id
LastOccurrence(items, id) ==
    CHOOSE i \in DOMAIN items :
        /\ items[i].id = id
        /\ \A j \in DOMAIN items : items[j].id = id => j <= i

ListReplaced(viewportId, remoteAnnotations) ==
    LET items == ConvertAll(viewportId, remoteAnnotations, uuidCount)
    IN /\ \A ann \in Range(annotations) :
             ann.parentId # viewportId => ann \in Range(annotations')
       /\ \A ann \in Range(pendingAnnotations) :
             ann.parentId # viewportId => ann \in Range(pendingAnnotations')
       /\ \A ann \in Everything(annotations, pendingAnnotations) :
             (ann.parentId = viewportId /\ ann.id \notin Ids(items))
             => ann.id \notin Ids(annotations') \cup Ids(pendingAnnotations')
       /\ \A id \in Ids(items) :
             /\ Cardinality({i \in DOMAIN annotations' : annotations'[i].id = id}) = 1
             /\ id \notin Ids(pendingAnnotations')
             /\ items[LastOccurrence(items, id)] \in Range(annotations')

\* C2: ingestAnnotationList(V, items) leaves every annotation whose parentId
\* differs from V unchanged, removes every annotation whose parentId is V and
\* whose id is not among items, and afterwards holds each item exactly once,
\* the last occurrence of a repeated id winning.
C2_IngestReplacesList ==
    [][\A viewportId \in ViewportIds, remoteAnnotations \in RemoteLists :
          IngestStep(viewportId, remoteAnnotations)
          => ListReplaced(viewportId, remoteAnnotations)]_vars

(***************************************************************************)
(* Undo and redo.                                                          *)
(***************************************************************************)
MutatingOps ==
    {"handleMouseUp", "updateAnnotation", "deleteAnnotation", "deleteSelected",
     "importAnnotations", "loadAnnotationsForProfile"}

\* the active set after undo() immediately followed by redo()
UndoThenRedo ==
    LET undone == undo(history, historyIndex, annotations)
    IN redo(history, undone.historyIndex, undone.annotations).annotations

\* C3: after any sequence of mutating store operations (the operations that
\* record history) within the history cap, undo() immediately followed by
\* redo() leaves the active annotation set as it was before the undo.
C3_UndoRedoIdentity ==
    (lastOp.op \in MutatingOps /\ Len(history) <= HistoryCap)
    => UndoThenRedo = annotations

\* a mutating operation left a state in which undo() changes the active set
C3_Witness ==
    /\ lastOp.op \in MutatingOps
    /\ historyIndex >= 1
    /\ undo(history, historyIndex, annotations).annotations # annotations
    /\ UndoThenRedo = annotations

\* C10: an annotation that upsertRemoteAnnotation or ingestAnnotationList has
\* applied stays in the store with the fields the server supplied, whatever
\* undo() and redo() calls follow.
C10_RemoteNotUndoable ==
    \A ann \in remoteApplied : ann \in Everything(annotations, pendingAnnotations)

ViewerPushOps == {"viewer.setCurrentImage", "viewer.addAnnotation", "viewer.updateAnnotation"}

\* C4: from a store that holds an annotation and has an empty history, n calls
\* of updateAnnotation (n at most 50) leave n history entries with the pointer
\* at n - 1, and n calls of undo() then restore the annotation set from before
\* the first update.
C4_UpdateUndoScenario ==
    /\ (scenario.phase = "updating" /\ scenario.updates <= HistoryCap)
       => (Len(history) = scenario.updates /\ historyIndex = scenario.updates - 1)
    /\ (/\ scenario.phase = "undoing"
        /\ scenario.updates <= HistoryCap
        /\ scenario.undos = scenario.updates)
       => annotations = <<LoadedAnnotation>>

HistoryShape(h, idx) ==
    /\ Len(h) <= HistoryCap
    /\ -1 <= idx /\ idx <= Len(h) - 1
    /\ idx = -1 <=> Len(h) = 0

\* h2 with pointer idx2 is what a push onto h at pointer idx leaves: the
\* pointer on the newest entry, the oldest entry dropped when a 51st would be stored
Pushed(h, idx, h2, idx2) ==
    LET kept == SubSeq(h, 1, idx + 1)
    IN /\ Len(h2) >= 1
       /\ idx2 = Len(h2) - 1
       /\ IF Len(kept) = HistoryCap
          THEN Len(h2) = HistoryCap /\ SubSeq(h2, 1, HistoryCap - 1) = Tail(kept)
          ELSE Len(h2) = Len(kept) + 1 /\ SubSeq(h2, 1, Len(kept)) = kept

\* C5: each store's history holds at most 50 entries, its pointer lies between
\* -1 and the last index and is -1 exactly when the history is empty; every
\* push leaves the pointer on the newest entry and drops the oldest entry when
\* a 51st would be stored.
C5_HistoryBounded ==
    /\ [](HistoryShape(history, historyIndex)
          /\ HistoryShape(viewerHistory, viewerHistoryIndex))
    /\ [][/\ lastOp'.op \in MutatingOps
             => /\ Pushed(history, historyIndex, history', historyIndex')
                /\ history'[Len(history')] = annotations'
          /\ (lastOp'.op \in ViewerPushOps /\ currentImageId' # "")
             => /\ Pushed(viewerHistory, viewerHistoryIndex,
                          viewerHistory', viewerHistoryIndex')
                /\ viewerHistory'[Len(viewerHistory')] = viewerAnnotations'[currentImageId']]_vars

\* the 51st snapshot was stored and the first one dropped
C5_Witness ==
    /\ lastOp.op = "updateAnnotation"
    /\ Len(history) = HistoryCap
    /\ historyIndex = HistoryCap - 1
    /\ history[1][1].x = 2
    /\ history[HistoryCap][1].x = HistoryCap + 1

\* C6: after one or more undo() calls the next mutating store operation
\* discards every history entry after the pointer; immediately after it redo()
\* is a no-op and the history holds the entries up to the pointer followed by
\* the new snapshot alone.
C6_RedoBranchDiscarded ==
    [][(lastOp'.op \in MutatingOps /\ HadRedo)
       => /\ Len(history') = historyIndex + 2
          /\ SubSeq(history', 1, historyIndex + 1) = SubSeq(history, 1, historyIndex + 1)
          /\ history'[Len(history')] = annotations'
          /\ historyIndex' = Len(history') - 1
          /\ redo(history', historyIndex', annotations')
                = [annotations |-> annotations', historyIndex |-> historyIndex']]_vars

\* a mutating operation ran while entries lay after the pointer
C6_Witness ==
    /\ lastOp.op \in MutatingOps
    /\ lastOp.hadRedo
    /\ Len(history) >= 2

(***************************************************************************)
(* The realtime session.                                                   *)
(***************************************************************************)
\* C7: an inbound message whose user id equals the local decoded user id is
\* dropped: no handler is invoked, and neither the remoteUsers map nor the
\* annotation store changes.
C7_SelfEchoDropped ==
    [][(/\ lastOp'.op = "handleMessage"
        /\ localUserId # ""
        /\ lastOp'.id = localUserId)
       => (lastOp'.handler = "" /\ UNCHANGED <<storeVars, collabVars>>)]_vars

\* an echo arrived while the store held annotations and a remote user was known
C7_Witness ==
    /\ lastOp.op = "handleMessage"
    /\ lastOp.id = "me"
    /\ localUserId = "me"
    /\ lastOp.handler = ""
    /\ Len(annotations) > 0
    /\ DOMAIN remoteUsers # {}

\* the first of the values that is present, <<>> if none is
FirstOf(values) ==
    IF \E i \in DOMAIN values : values[i] # <<>>
    THEN values[CHOOSE i \in DOMAIN values :
                    values[i] # <<>> /\ \A j \in DOMAIN values : values[j] # <<>> => i <= j]
    ELSE <<>>

\* the rectangle the coordinates of a server annotation describe
SuppliedRect(c) ==
    [x |-> FirstOf(<<c.x, c.left, c.x1>>),
     y |-> FirstOf(<<c.y, c.top, c.y1>>),
     w |-> FirstOf(<<c.w, c.width, Difference(c.right, c.left), Difference(c.x2, c.x1)>>),
     h |-> FirstOf(<<c.h, c.height, Difference(c.bottom, c.top), Difference(c.y2, c.y1)>>)]

HoldsServerCopy(A) ==
    /\ Cardinality({i \in DOMAIN annotations' : annotations'[i].id = A.id}) = 1
    /\ A.id \notin Ids(pendingAnnotations')
    /\ \A ann \in Range(annotations') :
          ann.id = A.id
          => /\ <<ann.x>> = SuppliedRect(A.coordinates).x
             /\ <<ann.y>> = SuppliedRect(A.coordinates).y
             /\ <<ann.w>> = SuppliedRect(A.coordinates).w
             /\ <<ann.h>> = SuppliedRect(A.coordinates).h
             /\ <<ann.label>> = Nullish(A.label, A.annotation_type)
             /\ ann.parentId = A.viewport_id

\* C8: an annotation:conflict message for annotation A acts exactly as
\* annotation:updated does, and afterwards the store holds exactly one
\* annotation for A, carrying the fields the server supplied.
C8_ConflictOverwrites ==
    [][\A message \in InboundMessages :
          (/\ message.type = "annotation:conflict"
           /\ message.user # localUserId
           /\ handleMessage(message))
          => /\ handleMessage([message EXCEPT !.type = "annotation:updated"])
             /\ HoldsServerCopy(message.annotation[1])]_vars

OutboundFor(op) ==
    IF op = "handleMouseUp" THEN "annotation:create"
    ELSE IF op = "updateAnnotation" THEN "annotation:update"
    ELSE "annotation:delete"

\* C9: every local create, update or delete made while the connection is
\* open is followed by an outbound annotation:create, annotation:update or
\* annotation:delete message for it.
C9_EditsAreSent ==
    [][(/\ lastOp'.op \in {"handleMouseUp", "updateAnnotation", "deleteSelected"}
        /\ isOpen /\ socket = "OPEN")
       => \E i \in DOMAIN outbox' : outbox'[i].type = OutboundFor(lastOp'.op)]_vars

(***************************************************************************)
(* The annotation store and its deferred saves, an image being loaded.     *)
(***************************************************************************)
\* saveToLocalStorage with imageUrl set: the item of the image gets the active
\* annotations followed by the pending ones, and the transform
saveToLocalStorage ==
    /\ localStorageItem' = [localStorageItem EXCEPT ![imageUrl] =
                                [annotations |-> annotations \o pendingAnnotations,
                                 transform |-> transform]]
    /\ imageUrl' = imageUrl

\* one of the pending callbacks runs
SaveTimerFires ==
    /\ saveTimers > 0
    /\ saveTimers' \in (IF saveTimers = MaxTimers THEN {MaxTimers - 1, MaxTimers}
                        ELSE {saveTimers - 1})
    /\ saveToLocalStorage
    /\ lastOp' = Op("saveToLocalStorage", "")
    /\ UNCHANGED <<annotations, pendingAnnotations, selectedIds, history, historyIndex, mode,
                   uuidCount, csvVars, canvasVars, clientVars, collabVars, viewerVars,
                   remoteApplied, scenario>>

NextPersist ==
    \/ Draw
    \/ Update
    \/ Delete
    \/ DeleteSelected
    \/ Select
    \/ Import
    \/ LoadProfile
    \/ SaveTimerFires

SpecPersist == Init /\ [][NextPersist]_vars

(***************************************************************************)
(* The canvas under zoom, fit, reset, pan and scroll gestures.             *)
(***************************************************************************)
MaxViewOps == 2

Images ==
    {[width |-> Whole(400), height |-> Whole(400)],
     [width |-> Whole(10), height |-> Whole(10)],
     [width |-> Whole(4000), height |-> Whole(3000)]}

\* positions of the pointer, relative to the visible canvas
Cursors == {Point(Whole(100), Whole(40))}

PanMoves == {Point(Whole(300), Whole(0 - 50))}

ScrollOffsets == {Point(Whole(0), Whole(0)), Point(Whole(100), Whole(100))}

CanvasFrame ==
    UNCHANGED <<storeVars, csvVars, persistVars, clientVars, collabVars, viewerVars,
                remoteApplied, scenario>>

\* setImage: another image is loaded
LoadImage ==
    /\ viewOps = 0 /\ transform = InitialTransform
    /\ \E next \in Images : image' = next
    /\ lastOp' = Op("setImage", "")
    /\ UNCHANGED <<transform, scrollLeft, scrollTop, viewOps, marqueeStart, mousePos,
                   activeProfileEditId>>
    /\ CanvasFrame

ZoomAt ==
    /\ viewOps < MaxViewOps
    /\ \E cursor \in Cursors, delta \in {0 - 1, 1} :
          /\ zoomAt(cursor.x, cursor.y, delta)
          /\ lastOp' = Op("zoomAt", "")
    /\ viewOps' = viewOps + 1
    /\ UNCHANGED <<image, marqueeStart, mousePos,
                   activeProfileEditId>>
    /\ CanvasFrame

FitToScreen ==
    /\ fitToScreen
    /\ lastOp' = Op("fitToScreen", "")
    /\ UNCHANGED <<image, viewOps, marqueeStart, mousePos,
                   activeProfileEditId>>
    /\ CanvasFrame

ResetZoom ==
    /\ resetZoom
    /\ lastOp' = Op("resetZoom", "")
    /\ UNCHANGED <<image, viewOps, marqueeStart, mousePos,
                   activeProfileEditId>>
    /\ CanvasFrame

Pan ==
    /\ viewOps < MaxViewOps
    /\ \E move \in PanMoves : pan(move.x, move.y)
    /\ lastOp' = Op("pan", "")
    /\ viewOps' = viewOps + 1
    /\ UNCHANGED <<image, marqueeStart, mousePos,
                   activeProfileEditId>>
    /\ CanvasFrame

\* the user scrolls the container
Scroll ==
    /\ \E offset \in ScrollOffsets :
          /\ scrollLeft' = Assigned(offset.x, image.width, transform.scale, Viewport.width)
          /\ scrollTop' = Assigned(offset.y, image.height, transform.scale, Viewport.height)
    /\ lastOp' = Op("scroll", "")
    /\ UNCHANGED <<image, transform, viewOps, marqueeStart, mousePos,
                   activeProfileEditId>>
    /\ CanvasFrame

NextView ==
    \/ LoadImage
    \/ ZoomAt
    \/ FitToScreen
    \/ ResetZoom
    \/ Pan
    \/ Scroll

SpecView == Init /\ [][NextView]_vars

(***************************************************************************)
(* Marquee selection with the select tool: handleMouseDown on empty        *)
(* canvas, handleMouseMove, and the marquee branch of handleMouseUp.       *)
(***************************************************************************)
\* corners of the annotation on the screen
annScreen(ann) ==
    [x1 |-> imageToScreen(Whole(ann.x), Whole(ann.y)).x,
     y1 |-> imageToScreen(Whole(ann.x), Whole(ann.y)).y,
     x2 |-> imageToScreen(Whole(ann.x + ann.w), Whole(ann.y + ann.h)).x,
     y2 |-> imageToScreen(Whole(ann.x + ann.w), Whole(ann.y + ann.h)).y]

\* the test of the forEach callback, start and end being the marquee's corners
marqueeHolds(ann, start, end) ==
    LET x1 == MathMin(start.x, end.x)
        y1 == MathMin(start.y, end.y)
        x2 == MathMax(start.x, end.x)
        y2 == MathMax(start.y, end.y)
        box == annScreen(ann)
    IN /\ AtMost(x1, box.x1) /\ AtMost(box.x2, x2)
       /\ AtMost(y1, box.y1) /\ AtMost(box.y2, y2)

isProfileLabel(label) == label # "" /\ label \in PROFILE_LABEL_CONFIG

\* the ids the marquee branch passes to store.setSelected, <<>> when it makes
\* no call
marqueeSelection(start, end) ==
    LET selected == SelectSeq(annotations, LAMBDA ann : marqueeHolds(ann, start, end))
        profiles == SelectSeq(selected, LAMBDA ann : isProfileLabel(ann.label))
    IN IF Len(selected) = 0 THEN <<>>
       ELSE IF mode = "viewport" /\ Len(profiles) > 0
            THEN <<{profiles[Len(profiles)].id}>>
            ELSE <<Ids(selected)>>

\* hitTestAnnotation finds nothing at the point
OnEmptyCanvas(point) ==
    \A ann \in Range(annotations) :
        LET box == annScreen(ann)
        IN ~(/\ AtMost(box.x1, point.x) /\ AtMost(point.x, box.x2)
             /\ AtMost(box.y1, point.y) /\ AtMost(point.y, box.y2))

PointerPositions ==
    {Point(Whole(0), Whole(0)), Point(Whole(25), Whole(25)), Point(Whole(45), Whole(45)),
     Point(Whole(100), Whole(100))}

MarqueeFrame ==
    UNCHANGED <<csvVars, persistVars, clientVars, collabVars, viewerVars, scenario>>

MouseMove ==
    /\ \E point \in PointerPositions : mousePos' = point
    /\ lastOp' = Op("handleMouseMove", "")
    /\ UNCHANGED <<storeVars, image, transform, scrollLeft, scrollTop, viewOps, marqueeStart, activeProfileEditId,
                   remoteApplied>>
    /\ MarqueeFrame

MarqueeDown ==
    /\ marqueeStart = <<>>
    /\ OnEmptyCanvas(mousePos)
    /\ \E shiftKey \in BOOLEAN :
          IF shiftKey THEN UNCHANGED storeVars ELSE clearSelection
    /\ marqueeStart' = <<mousePos>>
    /\ lastOp' = Op("handleMouseDown:marquee", "")
    /\ UNCHANGED <<image, transform, scrollLeft, scrollTop, viewOps, mousePos,
                   activeProfileEditId, remoteApplied>>
    /\ MarqueeFrame

MarqueeUp ==
    /\ marqueeStart # <<>>
    /\ LET ids == marqueeSelection(marqueeStart[1], mousePos)
       IN IF ids = <<>> THEN UNCHANGED storeVars ELSE setSelected(ids[1])
    /\ marqueeStart' = <<>>
    /\ lastOp' = Op("handleMouseUp:marquee", "")
    /\ UNCHANGED <<image, transform, scrollLeft, scrollTop, viewOps, mousePos,
                   activeProfileEditId, remoteApplied>>
    /\ MarqueeFrame

\* drawing and switching mode happen between marquee gestures
MarqueeDraw == marqueeStart = <<>> /\ Draw

MarqueeSetMode == marqueeStart = <<>> /\ SetMode

MarqueeFit == marqueeStart = <<>> /\ FitToScreen

NextMarquee ==
    \/ MarqueeDraw
    \/ MarqueeSetMode
    \/ MarqueeFit
    \/ MouseMove
    \/ MarqueeDown
    \/ MarqueeUp

SpecMarquee == Init /\ [][NextMarquee]_vars

(***************************************************************************)
(* Bulk geometry: convertBoundingBoxRowsToAnnotations.  A text is a        *)
(* sequence of characters; a row maps the headers it has to texts.         *)
(***************************************************************************)
DecimalDigits == <<"0", "1", "2", "3", "4", "5", "6", "7", "8", "9">>

IsDigit(c) == \E n \in DOMAIN DecimalDigits : DecimalDigits[n] = c

DigitValue(c) == (CHOOSE n \in DOMAIN DecimalDigits : DecimalDigits[n] = c) - 1

RECURSIVE SkipSpaces(_)
SkipSpaces(text) ==
    IF text # <<>> /\ Head(text) = " " THEN SkipSpaces(Tail(text)) ELSE text

RECURSIVE LeadingDigits(_)
LeadingDigits(text) ==
    IF text # <<>> /\ IsDigit(Head(text))
    THEN <<Head(text)>> \o LeadingDigits(Tail(text))
    ELSE <<>>

RECURSIVE DecimalValue(_)
DecimalValue(digits) ==
    IF digits = <<>> THEN 0
    ELSE 10 * DecimalValue(SubSeq(digits, 1, Len(digits) - 1))
         + DigitValue(digits[Len(digits)])

InfinityText == <<"I", "n", "f", "i", "n", "i", "t", "y">>

StartsWith(text, prefix) ==
    Len(text) >= Len(prefix) /\ SubSeq(text, 1, Len(prefix)) = prefix

\* Number.parseFloat of a text without fraction and exponent: leading blanks
\* are skipped, a sign is taken, then Infinity or the longest run of digits;
\* what follows is ignored
parseFloat(text) ==
    LET trimmed == SkipSpaces(text)
        signed == trimmed # <<>> /\ Head(trimmed) \in {"-", "+"}
        unsigned == IF signed THEN Tail(trimmed) ELSE trimmed
        digits == LeadingDigits(unsigned)
    IN IF StartsWith(unsigned, InfinityText) THEN [kind |-> "Infinity", value |-> 0]
       ELSE IF digits = <<>> THEN [kind |-> "NaN", value |-> 0]
       ELSE [kind |-> "finite",
             value |-> IF signed /\ Head(trimmed) = "-" THEN 0 - DecimalValue(digits)
                       ELSE DecimalValue(digits)]

\* Number.parseInt(text, 10)
parseInt(text) ==
    LET parsed == parseFloat(text)
    IN IF parsed.kind = "finite" THEN <<parsed.value>> ELSE <<>>

\* row[key]: <<>> for undefined
Cell(row, key) == IF key \in DOMAIN row THEN <<row[key]>> ELSE <<>>

\* the parseNumber local to convertBoundingBoxRowsToAnnotations
parseCsvNumber(value) ==
    IF value = <<>> THEN <<>>
    ELSE LET parsed == parseFloat(value[1])
         IN IF parsed.kind = "finite" THEN <<parsed.value>> ELSE <<>>

\* the four bounds of a row
rowBounds(row) ==
    [xMin |-> Nullish(parseCsvNumber(Cell(row, "x_min")),
                  Nullish(parseCsvNumber(Cell(row, "xMin")),
                      Nullish(parseCsvNumber(Cell(row, "left")),
                              parseCsvNumber(Cell(row, "x1"))))),
     yMin |-> Nullish(parseCsvNumber(Cell(row, "y_min")),
                  Nullish(parseCsvNumber(Cell(row, "yMin")),
                      Nullish(parseCsvNumber(Cell(row, "top")),
                              parseCsvNumber(Cell(row, "y1"))))),
     xMax |-> Nullish(parseCsvNumber(Cell(row, "x_max")),
                  Nullish(parseCsvNumber(Cell(row, "xMax")),
                      Nullish(parseCsvNumber(Cell(row, "right")),
                              parseCsvNumber(Cell(row, "x2"))))),
     yMax |-> Nullish(parseCsvNumber(Cell(row, "y_max")),
                  Nullish(parseCsvNumber(Cell(row, "yMax")),
                      Nullish(parseCsvNumber(Cell(row, "bottom")),
                              parseCsvNumber(Cell(row, "y2")))))]

\* a conversion that keeps every row whose bounds are numbers
rowSkippedUnlessNumbers(bounds) ==
    bounds.xMin = <<>> \/ bounds.yMin = <<>> \/ bounds.xMax = <<>> \/ bounds.yMax = <<>>

\* the two early returns of the forEach callback
rowSkipped(bounds) ==
    \/ bounds.xMin = <<>> \/ bounds.yMin = <<>> \/ bounds.xMax = <<>> \/ bounds.yMax = <<>>
    \/ bounds.xMax[1] - bounds.xMin[1] <= 0
    \/ bounds.yMax[1] - bounds.yMin[1] <= 0

ModelLabelNames ==
    <<"T1", "T2", "S15", "VerticalBars", "HorizontalBars", "T3", "T4", "S20", "S25">>

ProfileLabelNames ==
    <<"Column Schedule", "Column Section", "Wall Schedule", "Beam Schedule", "Slab Schedule",
      "Foundation Schedule", "Detail Section", "Elevation", "Plan View">>

\* a % b of JavaScript, the sign being the dividend's
Remainder(a, b) == IF a >= 0 THEN a % b ELSE 0 - ((0 - a) % b)

\* row.class_id ?? row.classId ?? row.label ?? String(index)
rowClassId(row, index) ==
    Nullish(Cell(row, "class_id"),
        Nullish(Cell(row, "classId"),
            Nullish(Cell(row, "label"), <<<<DecimalDigits[index + 1]>>>>)))[1]

\* resolveModelLabel without a class map
resolveModelLabel(classId) ==
    LET numeric == parseInt(classId)
        length == Len(ModelLabelNames)
    IN IF numeric # <<>>
       THEN ModelLabelNames[(Remainder(Remainder(numeric[1], length) + length, length)) + 1]
       ELSE ModelLabelNames[1]

\* resolveProfileLabel without a class map
resolveProfileLabel(classId, sequence) ==
    ProfileLabelNames[(sequence % Len(ProfileLabelNames)) + 1]

createAnnotationId(count) == generateUuid(count)

\* the forEach of convertBoundingBoxRowsToAnnotations from row index on
\* (0-based), count ids and sequence profile labels having been handed out
RECURSIVE convertRowsFrom(_, _, _, _, _, _)
convertRowsFrom(rows, index, category, imageId, count, sequence) ==
    IF index >= Len(rows) THEN <<>>
    ELSE LET row == rows[index + 1]
             bounds == rowBounds(row)
         IN IF rowSkipped(bounds)
            THEN convertRowsFrom(rows, index + 1, category, imageId, count, sequence)
            ELSE LET label == IF category = "model"
                              THEN resolveModelLabel(rowClassId(row, index))
                              ELSE resolveProfileLabel(rowClassId(row, index), sequence)
                     annotation ==
                         Annotation(createAnnotationId(count), label, category,
                                    bounds.xMin[1], bounds.yMin[1],
                                    bounds.xMax[1] - bounds.xMin[1],
                                    bounds.yMax[1] - bounds.yMin[1], imageId)
                 IN <<annotation>>
                    \o convertRowsFrom(rows, index + 1, category, imageId, count + 1,
                                       IF category = "model" THEN sequence ELSE sequence + 1)

convertBoundingBoxRowsToAnnotations(rows, category, imageId, count) ==
    convertRowsFrom(rows, 0, category, imageId, count, 0)

(***************************************************************************)
(* Batches of rows and their conversion.                                   *)
(***************************************************************************)
MaxRows == 2

\* the rows of the component's tests, and rows written with the other headers
CsvRows ==
    {[class_id |-> <<"9">>, x_min |-> <<"1", "0">>, y_min |-> <<"2", "0">>,
      x_max |-> <<"3", "0">>, y_max |-> <<"5", "0">>],
     [class_id |-> <<"1">>, x_min |-> <<"5">>, y_min |-> <<"5">>,
      x_max |-> <<"5">>, y_max |-> <<"1", "0">>],
     [class_id |-> <<"2">>, x_min |-> <<"a">>, y_min |-> <<"1", "0">>,
      x_max |-> <<"2", "0">>, y_max |-> <<"3", "0">>],
     [classId |-> <<"-", "1">>, xMin |-> <<"-", "5">>, yMin |-> <<"0">>,
      xMax |-> <<"5">>, yMax |-> <<"1", "0">>],
     [label |-> <<"T", "2">>, left |-> <<"0">>, top |-> <<"0">>,
      right |-> <<"4", "0">>, bottom |-> <<"4", "0">>],
     [x1 |-> <<"1", "0">>, y1 |-> <<"1", "0">>, x2 |-> <<"3", "0">>, y2 |-> <<"3", "0">>],
     [x_min |-> <<"a">>, xMin |-> <<"5">>, y_min |-> <<>>, top |-> <<"5">>,
      x_max |-> <<"9">>, y_max |-> <<"9">>],
     [x_min |-> <<"5", "p", "x">>, y_min |-> <<" ", "5">>, x_max |-> <<"+", "9">>,
      y_max |-> <<"9">>],
     [x_min |-> <<"9">>, y_min |-> <<"0">>, x_max |-> <<"5">>, y_max |-> <<"9">>],
     [x_min |-> <<"0">>, y_min |-> <<"9">>, x_max |-> <<"5">>, y_max |-> <<"5">>],
     [x_min |-> <<"0">>, y_min |-> <<"0">>, x_max |-> InfinityText, y_max |-> <<"9">>],
     [x_min |-> <<"0">>, y_min |-> <<"0">>, x_max |-> <<"9">>]}

RECURSIVE Batches(_)
Batches(n) ==
    IF n = 0 THEN {<<>>}
    ELSE Batches(n - 1) \cup {Append(batch, row) : batch \in {b \in Batches(n - 1) : Len(b) = n - 1},
                                                  row \in CsvRows}

CsvInputs ==
    {[rows |-> rows, category |-> category, imageId |-> "image-123"] :
        rows \in Batches(MaxRows), category \in {"model", "profile"}}

InitCsv ==
    /\ StoreInit
    /\ ClientInit
    /\ CollabInit
    /\ ViewerInit
    /\ lastOp = [op |-> "init", id |-> "", handler |-> "", hadRedo |-> FALSE]
    /\ remoteApplied = {}
    /\ scenario = NoScenario
    /\ csvInput \in CsvInputs
    /\ PersistInit
    /\ CanvasInit
    /\ csvAnnotations = <<>>

ConvertCsv ==
    /\ lastOp.op = "init"
    /\ csvAnnotations' = convertBoundingBoxRowsToAnnotations(csvInput.rows, csvInput.category,
                                                            csvInput.imageId, uuidCount)
    /\ uuidCount' = uuidCount + Len(csvAnnotations')
    /\ lastOp' = Op("convertBoundingBoxRowsToAnnotations", "")
    /\ UNCHANGED <<annotations, pendingAnnotations, selectedIds, history, historyIndex, mode, saveTimers, persistVars, canvasVars,
                   clientVars, collabVars, viewerVars, remoteApplied, scenario, csvInput>>

NextCsv == ConvertCsv

SpecCsv == InitCsv /\ [][NextCsv]_vars

(***************************************************************************)
(* The collaboration store under any order of its calls.                   *)
(***************************************************************************)
UserIds == {"me", "u1"}

CollabFrame == UNCHANGED <<csvVars, persistVars, canvasVars, storeVars, clientVars, viewerVars, remoteApplied, scenario>>

\* the hook passes the id decoded from the token, null when there is none
CollabSetLocalUserId ==
    \E userId \in UserIds \cup {""} :
        /\ setLocalUserId(userId)
        /\ lastOp' = Op("setLocalUserId", userId)
        /\ CollabFrame

CollabUpsertUser ==
    \E userId \in UserIds :
        /\ upsertUser(userId, "")
        /\ lastOp' = Op("upsertUser", userId)
        /\ CollabFrame

CollabRemoveUser ==
    \E userId \in UserIds :
        /\ removeUser(userId)
        /\ lastOp' = Op("removeUser", userId)
        /\ CollabFrame

CollabUpdateCursor ==
    \E userId \in UserIds :
        /\ updateCursor(userId, <<CursorPayload>>)
        /\ lastOp' = Op("updateCursor", userId)
        /\ CollabFrame

CollabUpdateSelection ==
    \E userId \in UserIds, selectionId \in {"", "s2"} :
        /\ updateSelection(userId, selectionId)
        /\ lastOp' = Op("updateSelection", userId)
        /\ CollabFrame

CollabReset ==
    /\ reset
    /\ lastOp' = Op("reset", "")
    /\ CollabFrame

NextCollab ==
    \/ CollabSetLocalUserId
    \/ CollabUpsertUser
    \/ CollabRemoveUser
    \/ CollabUpdateCursor
    \/ CollabUpdateSelection
    \/ CollabReset

SpecCollab == Init /\ [][NextCollab]_vars

(***************************************************************************)
(* The client's session.                                                   *)
(***************************************************************************)
\* the state of the session, read from the client's fields
SessionState ==
    IF isOpen THEN "Open" ELSE IF socket # "null" THEN "Connecting" ELSE "Disconnected"

\* C11: the session moves only from Disconnected to Connecting (on connect()),
\* from Connecting to Open (on the open event of its socket) and to
\* Disconnected (on a close event or disconnect()); connect() while a socket
\* exists changes nothing, and the session enters Connecting by connect() only.
C11_SessionMoves ==
    [][/\ SessionState' # SessionState
          => \/ /\ SessionState = "Disconnected" /\ SessionState' = "Connecting"
                /\ lastOp'.op = "connect"
             \/ /\ SessionState = "Connecting" /\ SessionState' = "Open"
                /\ lastOp'.op = "onSocketOpen"
             \/ /\ SessionState' = "Disconnected"
                /\ lastOp'.op \in {"onSocketClose", "onStaleSocketClose", "disconnect"}
       /\ (lastOp'.op = "connect" /\ socket # "null")
          => UNCHANGED <<socket, staleSockets, isOpen, heartbeatTimer, viewportQueue,
                         trackedViewports>>]_vars

\* C12: disconnect() leaves the heartbeat timer cancelled and the viewport
\* queue empty, and from then on the client sends no message until connect()
\* has been called again and the socket it created has opened: a message is
\* sent only while the socket the client holds is OPEN, a socket is held only
\* after connect(), and it becomes OPEN only by its open event.
C12_DisconnectSilences ==
    [][/\ lastOp'.op = "disconnect"
          => (~heartbeatTimer' /\ viewportQueue' = {} /\ socket' = "null" /\ ~isOpen')
       /\ socket' # "OPEN" => outbox' = <<>>
       /\ (socket # "OPEN" /\ socket' = "OPEN")
          => (socket = "CONNECTING" /\ lastOp'.op = "onSocketOpen")
       /\ (socket = "null" /\ socket' # "null") => lastOp'.op = "connect"]_vars

\* a heartbeat tick ran after disconnect() while no socket was held, and sent nothing
C12_Witness ==
    /\ lastOp.op = "heartbeatTick"
    /\ socket = "null"
    /\ outbox = <<>>

\* the operation sent an annotation:list request for id
Requested(id) ==
    \E i \in DOMAIN outbox' : outbox'[i] = Message("annotation:list", id)

\* C13: setTrackedViewports sends an annotation:list request at once for every
\* id that was not tracked when the session is Open, and queues it otherwise;
\* an id that is tracked already causes no request; a queued request leaves
\* the queue only by being sent, and the queue is empty once the session opens.
C13_TrackedRequested ==
    [][/\ \A viewportIds \in TrackedInputs :
             (lastOp'.op = "setTrackedViewports" /\ setTrackedViewports(viewportIds))
             => \A id \in Range(viewportIds) :
                   IF id \in trackedViewports
                   THEN ~Requested(id) /\ (id \in viewportQueue' <=> id \in viewportQueue)
                   ELSE IF isOpen THEN Requested(id)
                   ELSE id \in viewportQueue'
       /\ lastOp'.op # "disconnect"
          => \A id \in viewportQueue \ viewportQueue' : Requested(id)
       /\ lastOp'.op = "onSocketOpen" => viewportQueue' = {}]_vars

(***************************************************************************)
(* The collaboration state.                                                *)
(***************************************************************************)
\* C14: in every reachable state of the collaboration store the local user's
\* id is not a key of remoteUsers.
C14_LocalUserExcluded ==
    collabLocalUserId # "" => collabLocalUserId \notin DOMAIN remoteUsers

(***************************************************************************)
(* A remote deletion of a profile.                                         *)
(***************************************************************************)
\* C15: after removeRemoteAnnotation has applied the deletion of a profile P,
\* no annotation whose parentId is P.id and no annotation without parentId
\* lying inside P remains in the active or the pending set.
C15_RemoteDeleteCascades ==
    [][\A profile \in Range(annotations) :
          (/\ IsProfile(profile)
           /\ lastOp'.op = "removeRemoteAnnotation" /\ lastOp'.id = profile.id)
          => \A ann \in Everything(annotations', pendingAnnotations') :
                 ~DescendantOf(ann, profile)]_vars

(***************************************************************************)
(* What the store holds.                                                   *)
(***************************************************************************)
\* C16: no stored annotation, active or pending, has a width or a height
\* that is not a positive number.
C16_PositiveSize ==
    \A ann \in Everything(annotations, pendingAnnotations) : ann.w > 0 /\ ann.h > 0

\* C17: every annotation id in the active and the pending set is a string
\* that UUID_REGEX accepts.
C17_IdsAreUuids ==
    \A ann \in Everything(annotations, pendingAnnotations) : ann.id \in UUID_REGEX

(***************************************************************************)
(* Import.                                                                 *)
(***************************************************************************)
ImportOps == {"importAnnotations", "importAnnotations:threw", "importAnnotations:returned"}

\* C18: importAnnotations applies a payload only when its annotations field
\* is an array; for every other payload the call throws to its caller and
\* leaves the active set, the pending set, the selection and the history as
\* they were.
C18_ImportRejectsLoudly ==
    [][lastOp'.op \in ImportOps =>
          /\ lastOp'.op = "importAnnotations" => lastOp'.id = "array"
          /\ lastOp'.id # "array" =>
                 /\ lastOp'.op = "importAnnotations:threw"
                 /\ UNCHANGED <<annotations, pendingAnnotations, selectedIds,
                                history, historyIndex>>]_vars

(***************************************************************************)
(* Bulk geometry.                                                          *)
(***************************************************************************)
XMinKeys == <<"x_min", "xMin", "left", "x1">>
YMinKeys == <<"y_min", "yMin", "top", "y1">>
XMaxKeys == <<"x_max", "xMax", "right", "x2">>
YMaxKeys == <<"y_max", "yMax", "bottom", "y2">>

\* the number of the first header of the chain whose text parses to a finite
\* number, <<>> when there is none
RECURSIVE FirstFinite(_, _)
FirstFinite(row, keys) ==
    IF keys = <<>> THEN <<>>
    ELSE IF /\ Head(keys) \in DOMAIN row
            /\ parseFloat(row[Head(keys)]).kind = "finite"
         THEN <<parseFloat(row[Head(keys)]).value>>
         ELSE FirstFinite(row, Tail(keys))

RowBox(row) ==
    [xMin |-> FirstFinite(row, XMinKeys), yMin |-> FirstFinite(row, YMinKeys),
     xMax |-> FirstFinite(row, XMaxKeys), yMax |-> FirstFinite(row, YMaxKeys)]

RowIsValid(row) ==
    LET box == RowBox(row)
    IN /\ box.xMin # <<>> /\ box.yMin # <<>> /\ box.xMax # <<>> /\ box.yMax # <<>>
       /\ box.xMax[1] > box.xMin[1]
       /\ box.yMax[1] > box.yMin[1]

ValidIndices == {i \in DOMAIN csvInput.rows : RowIsValid(csvInput.rows[i])}

\* index of the k-th valid row of the batch
KthValid(k) ==
    CHOOSE i \in ValidIndices : Cardinality({j \in ValidIndices : j < i}) = k - 1

\* C19: convertBoundingBoxRowsToAnnotations returns, in row order, one
\* annotation for each row whose four bounds parse to finite numbers with
\* xMax > xMin and yMax > yMin, carrying x = xMin, y = yMin, w = xMax - xMin,
\* h = yMax - yMin, the requested category and the image id as parentId; the
\* other rows are dropped, and a batch without a valid row yields <<>>.
C19_ValidRowsConverted ==
    lastOp.op = "convertBoundingBoxRowsToAnnotations" =>
        /\ Len(csvAnnotations) = Cardinality(ValidIndices)
        /\ \A k \in DOMAIN csvAnnotations :
              LET box == RowBox(csvInput.rows[KthValid(k)])
                  ann == csvAnnotations[k]
              IN /\ ann.x = box.xMin[1]
                 /\ ann.y = box.yMin[1]
                 /\ ann.w = box.xMax[1] - box.xMin[1]
                 /\ ann.h = box.yMax[1] - box.yMin[1]
                 /\ ann.category = csvInput.category
                 /\ ann.parentId = csvInput.imageId

\* a batch of a valid row after a row without width has been converted
C19_Witness ==
    /\ lastOp.op = "convertBoundingBoxRowsToAnnotations"
    /\ Len(csvInput.rows) = 2
    /\ ~RowIsValid(csvInput.rows[1])
    /\ RowBox(csvInput.rows[1]).xMax = RowBox(csvInput.rows[1]).xMin
    /\ RowIsValid(csvInput.rows[2])
    /\ Len(csvAnnotations) = 1
    /\ csvAnnotations[1].w > 0

(***************************************************************************)
(* Snapshots after a mutating call.                                        *)
(***************************************************************************)
\* C20: every mutating store call (add, update, delete, deleteSelected,
\* importAnnotations, loadAnnotationsForProfile) leaves a history snapshot of
\* the state it produced at the history pointer and a write of the persisted
\* snapshot pending, which will store the state the store then has.
C20_SnapshotAndSave ==
    [][lastOp'.op \in MutatingOps =>
          /\ historyIndex' = Len(history') - 1
          /\ history'[historyIndex' + 1] = annotations'
          /\ saveTimers' > 0]_vars

(***************************************************************************)
(* Selection after undo and redo.                                          *)
(***************************************************************************)
\* C21: every undo and every redo, of the annotator's store and of the
\* viewer's, leaves the selection of its store empty.
C21_UndoRedoClearSelection ==
    [][/\ lastOp'.op \in {"undo", "redo"} => selectedIds' = {}
       /\ lastOp'.op \in {"viewer.undo", "viewer.redo"} => viewerSelectedIds' = {}]_vars

(***************************************************************************)
(* Marquee selection.                                                      *)
(***************************************************************************)
\* the projected bounding box of ann lies inside the rectangle spanned by the
\* two corners
InsideMarquee(ann, cornerA, cornerB) ==
    LET topLeft == imageToScreen(Whole(ann.x), Whole(ann.y))
        bottomRight == imageToScreen(Whole(ann.x + ann.w), Whole(ann.y + ann.h))
    IN \A corner \in {topLeft, bottomRight} :
          /\ AtMost(MathMin(cornerA.x, cornerB.x), corner.x)
          /\ AtMost(corner.x, MathMax(cornerA.x, cornerB.x))
          /\ AtMost(MathMin(cornerA.y, cornerB.y), corner.y)
          /\ AtMost(corner.y, MathMax(cornerA.y, cornerB.y))

\* C22: when a marquee drag is released, the selection becomes exactly the
\* set of the annotations whose projected bounding box lies inside the
\* marquee rectangle.
C22_MarqueeSelectsInside ==
    [][lastOp'.op = "handleMouseUp:marquee" =>
          selectedIds' = {ann.id : ann \in {a \in Range(annotations) :
                                               InsideMarquee(a, marqueeStart[1], mousePos)}}]_vars

(***************************************************************************)
(* The canvas.                                                             *)
(***************************************************************************)
\* C23: for every zoomAt at the pointer's position, a call whose scale is
\* clamped included, the image point under the pointer after the zoom and
\* its scroll update is the image point that was under it before.
C23_ZoomKeepsPoint ==
    [][lastOp'.op = "zoomAt" =>
          \A cursor \in Cursors :
              screenToImage(cursor.x, cursor.y)' = screenToImage(cursor.x, cursor.y)]_vars

\* image points the conversions are applied to: the origin, a point inside the
\* image and a fractional point off the image
ImagePoints ==
    { Point(Whole(0), Whole(0)),
      Point(Whole(37), Whole(115)),
      Point(Ratio(1, 3), Ratio(0 - 7, 2)) }

ScaleInRange == AtMost(MIN_ZOOM, transform.scale) /\ AtMost(transform.scale, MAX_ZOOM)

C25_ScaleStaysInRange ==
    /\ AtMost(MIN_ZOOM, transform.scale)
    /\ AtMost(transform.scale, MAX_ZOOM)

(***************************************************************************)
(* Parent links: linkAnnotationsToProfiles and the reconcile of the        *)
(* annotator, among imports, activations, draws and drags.                 *)
(***************************************************************************)
isProfileAnnotationShape(annotation) ==
    \/ annotation.category = "profile"
    \/ annotation.label # "" /\ annotation.label \in PROFILE_LABEL_CONFIG

isRectInside(inner, outer) ==
    /\ inner.x >= outer.x
    /\ inner.y >= outer.y
    /\ inner.x + inner.w <= outer.x + outer.w
    /\ inner.y + inner.h <= outer.y + outer.h

\* profiles.find((profile) => isRectInside(ann, profile))?.id
containingProfileId(profiles, ann) ==
    LET hits == {i \in DOMAIN profiles : isRectInside(ann, profiles[i])}
    IN IF hits = {} THEN ""
       ELSE profiles[CHOOSE i \in hits : \A j \in hits : i <= j].id

\* a link that hands back a fresh array on every call
linkIntoFreshArray(anns) ==
    LET profiles == SelectSeq(anns, isProfileAnnotationShape)
    IN [annotations |->
            [i \in DOMAIN anns |->
                IF isProfileAnnotationShape(anns[i]) THEN anns[i]
                ELSE Spread(anns[i], [parentId |-> containingProfileId(profiles, anns[i])])],
        changed |-> TRUE]

\* the array returned and whether it is a new one: `changed` is FALSE when the
\* function hands its argument back
linkAnnotationsToProfiles(anns) ==
    LET profiles == SelectSeq(anns, isProfileAnnotationShape)
        nextParentId(ann) == containingProfileId(profiles, ann)
        updated == [i \in DOMAIN anns |->
                       IF isProfileAnnotationShape(anns[i]) THEN anns[i]
                       ELSE IF nextParentId(anns[i]) = anns[i].parentId THEN anns[i]
                       ELSE Spread(anns[i], [parentId |-> nextParentId(anns[i])])]
        changed == \E i \in DOMAIN anns : updated[i] # anns[i]
    IN IF Len(profiles) = 0 THEN [annotations |-> anns, changed |-> FALSE]
       ELSE [annotations |-> IF changed THEN updated ELSE anns, changed |-> changed]

\* useAnnotationStore.setState of reconcileAnnotationParents: {} when the
\* linked array is state.annotations itself
reconcileAnnotationParents ==
    LET linked == linkAnnotationsToProfiles(annotations)
    IN /\ annotations' = IF linked.changed THEN linked.annotations ELSE annotations
       /\ lastOp' = Op(IF linked.changed THEN "reconcileAnnotationParents"
                       ELSE "reconcileAnnotationParents:same", "")
       /\ UNCHANGED <<pendingAnnotations, selectedIds, history, historyIndex, mode, uuidCount,
                      saveTimers>>

Reconcile ==
    /\ reconcileAnnotationParents
    /\ LocalOnly

NextReconcile ==
    \/ Draw
    \/ Update
    \/ SetMode
    \/ Import
    \/ LoadProfile
    \/ Reconcile

SpecReconcile == Init /\ [][NextReconcile]_vars

Reconciled == lastOp'.op \in {"reconcileAnnotationParents", "reconcileAnnotationParents:same"}

\* the profiles of the active set that contain ann
ContainingProfiles(ann) ==
    {i \in DOMAIN annotations :
        isProfileAnnotationShape(annotations[i]) /\ isRectInside(ann, annotations[i])}

\* C26: a reconcile changes only annotations without parentId: an annotation
\* with a parentId and every profile stay as they are, only the parentId of
\* an annotation changes, and a non-profile annotation without parentId that
\* lies inside exactly one profile gets the id of that profile as parentId.
C26_ReconcileLinksUnlinked ==
    [][Reconciled =>
          /\ DOMAIN annotations' = DOMAIN annotations
          /\ \A i \in DOMAIN annotations :
                LET ann == annotations[i]
                IN /\ ann.parentId # "" => annotations'[i] = ann
                   /\ isProfileAnnotationShape(ann) => annotations'[i] = ann
                   /\ \E parent \in {ann.parentId, annotations'[i].parentId} :
                          annotations'[i] = Spread(ann, [parentId |-> parent])
                   /\ (/\ ann.parentId = ""
                       /\ ~isProfileAnnotationShape(ann)
                       /\ Cardinality(ContainingProfiles(ann)) = 1)
                      => \E p \in ContainingProfiles(ann) :
                             annotations'[i].parentId = annotations[p].id]_vars

\* C27: a reconcile is idempotent, linking its result again changes no
\* parentId, and when the link changes the parentId of no annotation it hands
\* the array back and the store keeps its annotations.
C27_ReconcileIdempotent ==
    [][Reconciled =>
          /\ LET again == linkAnnotationsToProfiles(annotations')
             IN /\ ~again.changed
                /\ again.annotations = annotations'
          /\ LET linked == linkAnnotationsToProfiles(annotations)
             IN (\A i \in DOMAIN annotations :
                     linked.annotations[i].parentId = annotations[i].parentId)
                => /\ ~linked.changed
                   /\ lastOp'.op = "reconcileAnnotationParents:same"
                   /\ annotations' = annotations]_vars

\* a reconcile that relinked an annotation, the result holding a profile and
\* a linked annotation
C27_Witness ==
    /\ lastOp.op = "reconcileAnnotationParents"
    /\ \E i, j \in DOMAIN annotations :
          /\ isProfileAnnotationShape(annotations[i])
          /\ annotations[j].parentId = annotations[i].id

(***************************************************************************)
(* Lazy activation.                                                        *)
(***************************************************************************)
\* what loadAnnotationsForProfile(profile) returns: [] on the early returns,
\* the matches otherwise
loadAnnotationsForProfileReturns(profile) ==
    IF Len(pendingAnnotations) = 0 THEN <<>>
    ELSE ProfileMatches(pendingAnnotations, profile)

ImportLazy == ImportFrom(ImportPayloads \cup {LazyPayload})

NextLazy ==
    \/ Draw
    \/ SetMode
    \/ ImportLazy
    \/ LoadProfile
    \/ Undo
    \/ Redo

SpecLazy == Init /\ [][NextLazy]_vars

LoadedProfile == annotations[FindIndex(annotations, lastOp'.id)]

\* the pending annotations linked to profile, or unlinked and fully inside it
DueFor(profile) ==
    SelectSeq(pendingAnnotations, LAMBDA ann :
        \/ ann.parentId = profile.id
        \/ ann.parentId = "" /\ isRectInside(ann, profile))

\* the step moved exactly DueFor(profile) behind the active annotations,
\* returned that list and left the other annotations as they were
MovedDue(profile) ==
    /\ annotations' = annotations \o DueFor(profile)
    /\ pendingAnnotations' =
           SelectSeq(pendingAnnotations, LAMBDA ann : ann \notin Range(DueFor(profile)))
    /\ loadAnnotationsForProfileReturns(profile) = DueFor(profile)

\* the step pushed the active annotations it left behind the history pointer
SnapshotRecorded ==
    /\ Len(history') \in {historyIndex + 2, HistoryCap}
    /\ historyIndex' = Len(history') - 1
    /\ history'[Len(history')] = annotations'
    /\ \A i \in 1..(Len(history') - 1) :
          Len(history') = historyIndex + 2 => history'[i] = history[i]

LoadedForProfile ==
    lastOp'.op \in {"loadAnnotationsForProfile", "loadAnnotationsForProfile:none"}

\* C28: loadAnnotationsForProfile(P) moves from pending to active exactly the
\* pending annotations whose parentId is P.id or which have no parentId and
\* lie fully inside P, returns that list, leaves every other annotation as it
\* was, and records a history snapshot.
C28_LoadMovesAndRecords ==
    [][LoadedForProfile => MovedDue(LoadedProfile) /\ SnapshotRecorded]_vars

\* C28, amended: loadAnnotationsForProfile(P) moves exactly those pending
\* annotations, returns that list and leaves every other annotation as it
\* was; it records a history snapshot when it moved at least one annotation,
\* and leaves the history and its pointer untouched when it moved none.
C28_LoadMovesAndRecordsIfMoved ==
    [][LoadedForProfile =>
          /\ MovedDue(LoadedProfile)
          /\ IF Len(DueFor(LoadedProfile)) > 0 THEN SnapshotRecorded
             ELSE UNCHANGED <<history, historyIndex>>]_vars

\* an activation that moved a linked and an unlinked annotation and recorded
\* the active set
C28_Witness ==
    /\ lastOp.op = "loadAnnotationsForProfile"
    /\ history[historyIndex + 1] = annotations
    /\ \E ann \in Range(annotations) : ann.parentId = lastOp.id
    /\ \E ann \in Range(annotations) : ann.parentId = "" /\ ~isProfileAnnotation(ann)

isModelOrOcr(ann) == ann.category \in {"model", "ocr"}

\* C29: after importAnnotations the active set holds the profile annotations
\* and every model or ocr annotation is pending, and a model or ocr annotation
\* that was not active becomes active only by a loadAnnotationsForProfile
\* that activates its parent profile.
C29_ModelAndOcrDeferred ==
    [][/\ lastOp'.op = "importAnnotations" =>
             /\ \A ann \in Range(annotations') : ~isModelOrOcr(ann)
             /\ \A ann \in Range(pendingAnnotations') : ~isProfileAnnotation(ann)
       /\ \A ann \in Range(annotations') \ Range(annotations) :
             isModelOrOcr(ann) => lastOp'.op = "loadAnnotationsForProfile"]_vars

(***************************************************************************)
(* Categories of the annotations that enter the store: draws, remote       *)
(* upserts, saves and a reload of the saved item.  The annotations carry   *)
(* no ocrLabel.                                                            *)
(***************************************************************************)
\* the map callback of loadFromLocalStorage: the default label is
\* PROFILE_LABEL_CONFIG[0].name
annotationWithLabel(ann, count) ==
    LET label == IF ann.label = "" THEN ActiveLabelName("viewport") ELSE ann.label
        inferredCategory == IF ann.category # "" THEN ann.category
                            ELSE inferCategoryFromLabel(label)
    IN Spread(ann, [label |-> label, id |-> ensureUuid(ann.id, count).id,
                    category |-> inferredCategory])

RECURSIVE annotationsWithLabels(_, _)
annotationsWithLabels(anns, count) ==
    IF anns = <<>> THEN <<>>
    ELSE LET fresh == ensureUuid(Head(anns).id, count).fresh
         IN <<annotationWithLabel(Head(anns), count)>>
            \o annotationsWithLabels(Tail(anns), IF fresh THEN count + 1 ELSE count)

loadFromLocalStorage ==
    LET data == localStorageItem[imageUrl]
        parts == partitionAnnotationsForLazyLoad(annotationsWithLabels(data.annotations, uuidCount))
    IN /\ annotations' = parts.profile
       /\ pendingAnnotations' = parts.deferred
       /\ selectedIds' = {}
       /\ transform' = data.transform
       /\ uuidCount' = uuidCount + FreshCount(data.annotations)
       /\ UNCHANGED <<history, historyIndex, mode, saveTimers>>

Restore ==
    /\ CanGenerate(FreshCount(localStorageItem[imageUrl].annotations))
    /\ loadFromLocalStorage
    /\ lastOp' = Op("loadFromLocalStorage", "")
    /\ remoteApplied' = {}
    /\ UNCHANGED <<csvVars, persistVars, image, scrollLeft, scrollTop, viewOps, marqueeStart, activeProfileEditId,
                   mousePos, clientVars, collabVars, viewerVars, scenario>>

\* a payload with neither label nor annotation_type
UnlabelledPayload == RemotePayload("s2", "s1", XYWH, "", "")

UpsertAny ==
    \E remote \in {UnlabelledPayload, RemotePayload("s2", "s1", XYWH, "T1", "")} :
        /\ CanHold(1)
        /\ CanGenerate(FreshCount(<<remote>>))
        /\ UpsertStep(remote)

NextRestore ==
    \/ Draw
    \/ SetMode
    \/ UpsertAny
    \/ SaveTimerFires
    \/ Restore

SpecRestore == Init /\ [][NextRestore]_vars

\* C30: an annotation that enters the store without a category, drawn and
\* passed to addAnnotation, converted from a remote message or read from the
\* saved item, gets the category of the first of the profile, model and ocr
\* catalogs that holds its label, and none when no catalog holds it.
C30_CategoryFromLabel ==
    [][/\ lastOp'.op = "handleMouseUp" =>
             LET added == annotations'[Len(annotations')]
             IN added.category = inferCategoryFromLabel(added.label)
       /\ (lastOp'.op = "upsertRemoteAnnotation" /\ lastOp'.id # "") =>
             \A ann \in Range(annotations') :
                 ann.id = lastOp'.id => ann.category = inferCategoryFromLabel(ann.label)
       /\ lastOp'.op = "loadFromLocalStorage" =>
             \A stored \in Range(localStorageItem[imageUrl].annotations) :
                 stored.category = "" =>
                     \E ann \in Range(annotations') \cup Range(pendingAnnotations') :
                         /\ Spread(ann, [id |-> stored.id, label |-> stored.label,
                                         category |-> ""]) = stored
                         /\ ann.category = inferCategoryFromLabel(stored.label)]_vars

(***************************************************************************)
(* Inbound messages and the history.                                       *)
(***************************************************************************)
\* C31: applying an inbound message, whichever handler it is dispatched to
\* (annotation list, created, updated, deleted, presence, cursor, selection),
\* changes neither the history stack nor the history pointer.
C31_InboundKeepsHistory ==
    [][lastOp'.op = "handleMessage" => UNCHANGED <<history, historyIndex>>]_vars

\* a remote annotation was applied on top of a recorded local edit
C31_Witness ==
    /\ lastOp.op = "handleMessage"
    /\ lastOp.handler \in {"onAnnotationList", "onAnnotationCreated", "onAnnotationUpdated",
                           "onAnnotationDeleted"}
    /\ Len(history) > 0
    /\ history[historyIndex + 1] # annotations

(***************************************************************************)
(* Selection with the select tool: handleMouseDown with its handle, click  *)
(* and marquee branches, the marquee release, Escape, draws, imports and   *)
(* mode switches.                                                          *)
(***************************************************************************)
HANDLE_SIZE == 8

hitTestAnnotation(imageX, imageY, annotation) ==
    /\ AtMost(Whole(annotation.x), imageX)
    /\ AtMost(imageX, Whole(annotation.x + annotation.w))
    /\ AtMost(Whole(annotation.y), imageY)
    /\ AtMost(imageY, Whole(annotation.y + annotation.h))

\* TRUE when hitTestHandle returns the name of a handle
hitTestHandle(imageX, imageY, annotation) ==
    LET left == Whole(annotation.x)
        centre == Ratio(2 * annotation.x + annotation.w, 2)
        right == Whole(annotation.x + annotation.w)
        top == Whole(annotation.y)
        middle == Ratio(2 * annotation.y + annotation.h, 2)
        bottom == Whole(annotation.y + annotation.h)
        handles == {Point(left, top), Point(centre, top), Point(right, top),
                    Point(right, middle), Point(right, bottom), Point(centre, bottom),
                    Point(left, bottom), Point(left, middle)}
        threshold == Over(Whole(HANDLE_SIZE), transform.scale)
    IN \E pos \in handles :
          /\ Less(MathAbs(Minus(imageX, pos.x)), threshold)
          /\ Less(MathAbs(Minus(imageY, pos.y)), threshold)

\* for (let i = length - 1; i >= 0; i--) ... break: the index of the last
\* annotation that passes the test, 0 when none does
LastWhere(anns, Test(_)) ==
    LET hits == {i \in DOMAIN anns : Test(anns[i])}
    IN IF hits = {} THEN 0 ELSE CHOOSE i \in hits : \A j \in hits : j <= i

\* index of the annotation handleMouseDown takes as clicked, 0 for null
clickedAnnotation(imagePos) ==
    LET hit(ann) == hitTestAnnotation(imagePos.x, imagePos.y, ann)
        profileHit(ann) == isProfileLabel(ann.label) /\ hit(ann)
        selectedProfileIds ==
            IF activeProfileEditId # "" THEN {activeProfileEditId}
            ELSE {id \in selectedIds :
                     /\ FindIndex(annotations, id) # 0
                     /\ isProfileLabel(annotations[FindIndex(annotations, id)].label)}
        isInsideSelectedProfile(ann) ==
            /\ selectedProfileIds # {}
            /\ \/ ann.parentId # "" /\ ann.parentId \in selectedProfileIds
               \/ \E profileId \in selectedProfileIds :
                     /\ FindIndex(annotations, profileId) # 0
                     /\ isRectInside(ann, annotations[FindIndex(annotations, profileId)])
        childHit(ann) ==
            ~isProfileLabel(ann.label) /\ isInsideSelectedProfile(ann) /\ hit(ann)
        firstPass == IF activeProfileEditId = "" THEN LastWhere(annotations, profileHit) ELSE 0
    IN IF mode = "viewport"
       THEN IF firstPass # 0 THEN firstPass ELSE LastWhere(annotations, childHit)
       ELSE LastWhere(annotations, hit)

\* the branch of handleMouseDown a click on ann takes
clickBranch(ann, shiftKey, ctrlKey, detail) ==
    IF mode = "viewport" /\ ctrlKey /\ isProfileLabel(ann.label) THEN "ctrlClick"
    ELSE IF detail >= 2 THEN "doubleClick"
    ELSE IF shiftKey THEN "shiftClick"
    ELSE "click"

\* a click handler whose shift-click toggles profiles like any annotation
clickToggles(ann, shiftKey, ctrlKey, detail) ==
    LET branch == clickBranch(ann, shiftKey, ctrlKey, detail)
        unlessSelected == IF ann.id \in selectedIds THEN selectedIds ELSE {ann.id}
        toggled == IF ann.id \in selectedIds THEN selectedIds \ {ann.id}
                   ELSE selectedIds \cup {ann.id}
    IN IF branch \in {"ctrlClick", "doubleClick"} THEN unlessSelected
       ELSE IF branch = "shiftClick" THEN toggled
       ELSE IF mode = "viewport" /\ isProfileLabel(ann.label) THEN {ann.id}
       ELSE unlessSelected

\* the selection the branch leaves, selectedIdSet being the selection the
\* handler was rendered with
clickSelection(ann, shiftKey, ctrlKey, detail) ==
    LET branch == clickBranch(ann, shiftKey, ctrlKey, detail)
        unlessSelected == IF ann.id \in selectedIds THEN selectedIds ELSE {ann.id}
        toggled == IF ann.id \in selectedIds THEN selectedIds \ {ann.id}
                   ELSE selectedIds \cup {ann.id}
    IN IF branch \in {"ctrlClick", "doubleClick"} THEN unlessSelected
       ELSE IF branch = "shiftClick"
       THEN IF mode = "viewport" /\ isProfileLabel(ann.label) THEN {ann.id} ELSE toggled
       ELSE IF mode = "viewport" /\ isProfileLabel(ann.label) THEN {ann.id}
       ELSE unlessSelected

\* handleMouseDown with the select tool.  A click on a profile in viewport
\* mode calls store.loadAnnotationsForProfile before the selection is set.
handleMouseDown(shiftKey, ctrlKey, detail) ==
    LET imagePos == screenToImage(mousePos.x, mousePos.y)
        onHandle == \E ann \in Range(annotations) :
                        ann.id \in selectedIds /\ hitTestHandle(imagePos.x, imagePos.y, ann)
        clicked == clickedAnnotation(imagePos)
    IN IF onHandle
       THEN /\ UNCHANGED <<storeVars, marqueeStart, activeProfileEditId>>
            /\ lastOp' = Op("handleMouseDown:resize", "")
       ELSE IF clicked # 0
       THEN LET ann == annotations[clicked]
                matches == IF mode = "viewport" /\ isProfileLabel(ann.label)
                           THEN loadAnnotationsForProfileReturns(ann) ELSE <<>>
                selection == clickSelection(ann, shiftKey, ctrlKey, detail)
            IN /\ Len(matches) > 0 => CanSnapshot
               /\ IF Len(matches) > 0
                  THEN /\ SetAndSaveHistory(
                              annotations \o matches,
                              SelectSeq(pendingAnnotations,
                                        LAMBDA pending : pending \notin Range(matches)),
                              selection)
                       /\ saveTimers' = Scheduled(saveTimers)
                  ELSE /\ selectedIds' = selection
                       /\ UNCHANGED <<annotations, pendingAnnotations, history, historyIndex,
                                      saveTimers>>
               /\ UNCHANGED <<mode, uuidCount, marqueeStart>>
               /\ activeProfileEditId' =
                      IF clickBranch(ann, shiftKey, ctrlKey, detail) = "ctrlClick" THEN ann.id
                      ELSE activeProfileEditId
               /\ lastOp' = Op("handleMouseDown:" \o clickBranch(ann, shiftKey, ctrlKey, detail),
                               ann.id)
       ELSE /\ IF shiftKey THEN UNCHANGED storeVars ELSE clearSelection
            /\ marqueeStart' = <<mousePos>>
            /\ UNCHANGED activeProfileEditId
            /\ lastOp' = Op("handleMouseDown:marquee", "")

MouseDown ==
    /\ marqueeStart = <<>>
    /\ \E shiftKey \in BOOLEAN, ctrlKey \in BOOLEAN, detail \in {1, 2} :
          handleMouseDown(shiftKey, ctrlKey, detail)
    /\ UNCHANGED <<image, transform, scrollLeft, scrollTop, viewOps, mousePos, remoteApplied>>
    /\ MarqueeFrame

\* the Escape branch of the keydown handler
EscapeKey ==
    /\ marqueeStart = <<>>
    /\ clearSelection
    /\ activeProfileEditId' = ""
    /\ lastOp' = Op("keydown:Escape", "")
    /\ UNCHANGED <<image, transform, scrollLeft, scrollTop, viewOps, marqueeStart, mousePos,
                   remoteApplied>>
    /\ MarqueeFrame

\* store.setMode and the effect on store.mode that leaves the profile edit
SwitchMode ==
    /\ marqueeStart = <<>>
    /\ \E m \in {"viewport", "ocr"} :
          /\ setMode(m)
          /\ activeProfileEditId' = IF m # "viewport" THEN "" ELSE activeProfileEditId
    /\ lastOp' = Op("setMode", "")
    /\ UNCHANGED <<image, transform, scrollLeft, scrollTop, viewOps, marqueeStart, mousePos,
                   remoteApplied>>
    /\ MarqueeFrame

SelectImport == marqueeStart = <<>> /\ Import

NextSelect ==
    \/ MouseMove
    \/ MouseDown
    \/ MarqueeUp
    \/ EscapeKey
    \/ SwitchMode
    \/ MarqueeDraw
    \/ SelectImport

SpecSelect == Init /\ [][NextSelect]_vars

\* ids of the selection that are ids of profile annotations of the active set
SelectedProfiles(anns, ids) ==
    {ann.id : ann \in {a \in Range(anns) : a.id \in ids /\ isProfileLabel(a.label)}}

PresenceJoin ==
    \E userId \in UserIds, name \in {"", "Ann"} :
        /\ upsertUser(userId, name)
        /\ lastOp' = Op("upsertUser", userId)
        /\ CollabFrame

NextPresence ==
    \/ CollabSetLocalUserId
    \/ PresenceJoin
    \/ CollabRemoveUser
    \/ CollabUpdateCursor
    \/ CollabUpdateSelection

SpecPresence == Init /\ [][NextPresence]_vars

\* the call of the step named a user that was not the local user
RemoteCall(ops) == lastOp'.op \in ops /\ ~IsLocalUser(lastOp'.id)

\* C33: the first join, cursor or selection update of a remote user creates
\* its entry with the next color of the palette, later updates keep the
\* color and every field they do not carry, no step changes the color of
\* an entry, and a leave removes the entry.
C33_RemoteUserEntry ==
    [][/\ RemoteCall({"upsertUser", "updateCursor", "updateSelection"})
          => /\ lastOp'.id \in DOMAIN remoteUsers'
             /\ lastOp'.id \notin DOMAIN remoteUsers
                   => /\ remoteUsers'[lastOp'.id].color = COLORS[(colorCursor % Len(COLORS)) + 1]
                      /\ colorCursor' % Len(COLORS) = (colorCursor + 1) % Len(COLORS)
             /\ lastOp'.id \in DOMAIN remoteUsers
                   => LET before == remoteUsers[lastOp'.id]
                          after == remoteUsers'[lastOp'.id]
                      IN /\ colorCursor' = colorCursor
                         /\ lastOp'.op = "updateCursor"
                               => after = [before EXCEPT !.cursor = after.cursor]
                         /\ lastOp'.op = "updateSelection"
                               => after = [before EXCEPT !.selectionId = after.selectionId]
                         /\ lastOp'.op = "upsertUser"
                               => /\ after = [before EXCEPT !.name = after.name]
                                  /\ after.name = before.name \/ before.name = ""
                                        \/ after.name # ""
       /\ \A u \in DOMAIN remoteUsers \cap DOMAIN remoteUsers' :
             remoteUsers'[u].color = remoteUsers[u].color
       /\ RemoteCall({"removeUser"}) => lastOp'.id \notin DOMAIN remoteUsers']_vars

\* a named user with a cursor and a selection, holding the second color of
\* the palette, right after a cursor update
C33_Witness ==
    /\ lastOp.op = "updateCursor"
    /\ lastOp.id \in DOMAIN remoteUsers
    /\ remoteUsers[lastOp.id].name = "Ann"
    /\ remoteUsers[lastOp.id].selectionId = "s2"
    /\ remoteUsers[lastOp.id].cursor # <<>>
    /\ remoteUsers[lastOp.id].color = COLORS[2]
    /\ Cardinality(DOMAIN remoteUsers) = 2

(***************************************************************************)
(* Undo after an operation that removed annotations.                       *)
(***************************************************************************)
\* ids of the annotations of the active and the pending set
UniverseIds(anns, pending) == Ids(anns) \cup Ids(pending)

\* the step was deleteAnnotation of a profile of the active set
CascadingDelete ==
    /\ lastOp'.op = "deleteAnnotation"
    /\ FindIndex(annotations, lastOp'.id) # 0
    /\ isProfileAnnotation(annotations[FindIndex(annotations, lastOp'.id)])

\* C34: after loadAnnotationsForProfile(P) or a cascading delete of profile
\* P, an undo() brings every annotation that was in the active or the
\* pending set before the operation back into the active or the pending set.
C34_UndoRestoresUniverse ==
    [][(lastOp'.op = "loadAnnotationsForProfile" \/ CascadingDelete)
          => LET undone == undo(history', historyIndex', annotations')
             IN UniverseIds(annotations, pendingAnnotations)
                   \subseteq UniverseIds(undone.annotations, pendingAnnotations')]_vars

(***************************************************************************)
(* The selection and the active set.                                       *)
(***************************************************************************)
\* C35: every id of the selection set is the id of an annotation of the
\* active set.
C35_SelectionInActiveSet == \A id \in selectedIds : id \in Ids(annotations)

(***************************************************************************)
(* A session started before the close event of the previous socket.        *)
(***************************************************************************)
\* C36: the close event of a socket that disconnect() closed, delivered
\* after connect() has started a new session, leaves the new socket as the
\* client's socket, with the isOpen flag and the heartbeat as they were;
\* and the open event of the client's socket leaves the client Open with
\* its heartbeat running.
C36_LateCloseKeepsSession ==
    [][/\ (lastOp'.op = "onStaleSocketClose" /\ staleSockets.closing > 0 /\ socket # "null")
          => /\ socket' = socket
             /\ isOpen' = isOpen
             /\ heartbeatTimer' = heartbeatTimer
       /\ lastOp'.op = "onSocketOpen"
          => socket' = "OPEN" /\ isOpen' /\ heartbeatTimer']_vars

(***************************************************************************)
(* Deferred saves across a change of image.                                *)
(***************************************************************************)
\* loadImageToCanvas(img, url, ...): store.clearAll(), store.setImage(img,
\* url) with its deferred save, store.loadFromLocalStorage(url) and
\* reconcileAnnotationParents(), in one synchronous call; the images have
\* no default CSV files
loadImageToCanvas(url) ==
    LET data == localStorageItem[url]
        parts == partitionAnnotationsForLazyLoad(annotationsWithLabels(data.annotations, uuidCount))
        linked == linkAnnotationsToProfiles(parts.profile)
    IN /\ annotations' = IF linked.changed THEN linked.annotations ELSE parts.profile
       /\ pendingAnnotations' = parts.deferred
       /\ selectedIds' = {}
       /\ history' = <<>>
       /\ historyIndex' = -1
       /\ imageUrl' = url
       /\ saveTimers' = Scheduled(saveTimers)
       /\ transform' = data.transform
       /\ uuidCount' = uuidCount + FreshCount(data.annotations)
       /\ activeProfileEditId' = ""
       /\ UNCHANGED <<mode, localStorageItem, image>>

SwitchImage ==
    /\ \E url \in ImageUrls :
          /\ CanGenerate(FreshCount(localStorageItem[url].annotations))
          /\ loadImageToCanvas(url)
          /\ lastOp' = Op("loadImageToCanvas", url)
    /\ remoteApplied' = {}
    /\ UNCHANGED <<csvVars, scrollLeft, scrollTop, viewOps, marqueeStart, mousePos, clientVars,
                   collabVars, viewerVars, scenario>>

NextImages ==
    \/ Draw
    \/ Update
    \/ SaveTimerFires
    \/ SwitchImage

SpecImages == Init /\ [][NextImages]_vars /\ WF_vars(SaveTimerFires)

\* C37: an annotation held for image A comes to be in the item saved under
\* the key of image A, and a deferred save writes the item of the current
\* image only, with the annotations the store holds for it.
C37_SavedUnderOwnImage ==
    /\ \A url \in ImageUrls, id \in Range(UuidPool) :
          (imageUrl = url /\ id \in UniverseIds(annotations, pendingAnnotations))
             ~> (id \in Ids(localStorageItem[url].annotations))
    /\ [][lastOp'.op = "saveToLocalStorage"
             => /\ \A url \in ImageUrls \ {imageUrl} :
                      localStorageItem'[url] = localStorageItem[url]
                /\ localStorageItem'[imageUrl].annotations
                      = annotations \o pendingAnnotations]_vars

(***************************************************************************)
(* What a remote removal takes away.                                       *)
(***************************************************************************)
Without(anns, id) == SelectSeq(anns, LAMBDA ann : ann.id # id)

\* C38: removeRemoteAnnotation(id, viewportId) removes the annotation whose
\* id is id and leaves every other annotation of the active and the pending
\* set as it was, the pending annotations whose parentId is viewportId
\* included.
C38_RemoveRemovesOnlyId ==
    [][lastOp'.op = "removeRemoteAnnotation"
          => /\ annotations' = Without(annotations, lastOp'.id)
             /\ pendingAnnotations' = Without(pendingAnnotations, lastOp'.id)]_vars

(***************************************************************************)
(* One annotation per id.                                                  *)
(***************************************************************************)
\* number of annotations of anns with the id
CountOf(anns, id) == Cardinality({i \in DOMAIN anns : anns[i].id = id})

\* C39: no two annotations of the active set share an id and no id is in
\* both the active and the pending set; after upsertRemoteAnnotation, also
\* when the annotation had been applied before, exactly one annotation
\* carries its id.
C39_OneAnnotationPerId ==
    [][/\ \A id \in Ids(annotations') : CountOf(annotations', id) = 1
       /\ Ids(annotations') \cap Ids(pendingAnnotations') = {}
       /\ (lastOp'.op = "upsertRemoteAnnotation" /\ lastOp'.id # "")
             => CountOf(annotations' \o pendingAnnotations', lastOp'.id) = 1]_vars

(***************************************************************************)
(* The viewer store with two images and one history.                       *)
(***************************************************************************)
MaxViewerHistory == 4

\* the run takes at most MaxViewerHistory snapshots
CanSaveSnapshot == Len(viewerHistory) < MaxViewerHistory

ViewerSwitchImage ==
    /\ CanSaveSnapshot
    /\ \E imageId \in ImageIds :
          /\ setCurrentImage(imageId)
          /\ lastOp' = Op("viewer.setCurrentImage", imageId)
    /\ ViewerFrame

ViewerAddBounded == CanSaveSnapshot /\ ViewerAdd

ViewerEditBounded == CanSaveSnapshot /\ ViewerEdit

NextViewer ==
    \/ ViewerSwitchImage
    \/ ViewerAddBounded
    \/ ViewerEditBounded
    \/ ViewerUndo
    \/ ViewerRedo

SpecViewer == Init /\ [][NextViewer]_vars

\* ids of the annotations the images other than imageId hold
OtherImagesIds(imageId) ==
    UNION {Ids(viewerAnnotations[other]) : other \in ImageIds \ {imageId}}

\* C40: undo() and redo() leave the annotations of every image but the
\* current one as they were, and give the current image no annotation of
\* another image: no snapshot taken of image A is written into image B.
C40_UndoRedoStayPerImage ==
    [][lastOp'.op \in {"viewer.undo", "viewer.redo"}
          => /\ \A other \in ImageIds \ {currentImageId} :
                   viewerAnnotations'[other] = viewerAnnotations[other]
             /\ currentImageId # ""
                   => Ids(viewerAnnotations'[currentImageId]) \cap OtherImagesIds(currentImageId)
                         = {}]_vars

====
